---- MODULE Spec2Model ----
(***************************************************************************)
(* Story Maker: client-side job polling (services/api.ts) and the          *)
(* reconciliation of asynchronous generation results into the story        *)
(* document (context/StoryContext.tsx, components/SceneGeneration.tsx).    *)
(*                                                                         *)
(* Three groups of variables:                                              *)
(*   - one poller created by api.pollJobUntilComplete,                     *)
(*   - the job record the status endpoint serves,                          *)
(*   - the story document and the SceneGeneration component state.         *)
(* Every specification below fixes the groups it does not exercise:        *)
(*   SpecPoll   the poller against an arbitrary status endpoint,           *)
(*   SpecJob    the poller against a job running its lifecycle,            *)
(*   SpecScene  per-scene image and video requests on a resumed story,     *)
(*   SpecStory  script generation, batch requests and navigation,          *)
(*   SpecPipeline  one story from the script to the scene images,          *)
(*   SpecVideo  stories regenerated up to their batch and single videos,   *)
(*   SpecSignature  a saved project reopened after its inputs changed,     *)
(*   SpecNarration  narration requests, script edits and the final page,   *)
(*   SpecSubmit  the submission of a job before the poller starts,         *)
(*   SpecFanOut  the poller against a fan-out job of several sub-tasks,    *)
(*   SpecSave  the debounced saves of the document to the project store,   *)
(*   SpecLoad  persisted projects loaded between visits of the page,       *)
(*   SpecBatchVideo  batch and per-scene video requests side by side,      *)
(*   SpecBlueprint  the pipeline with blueprints in the prompt responses.  *)
(***************************************************************************)
EXTENDS Integers, Sequences, FiniteSets, TLC

(***************************************************************************)
(* Bounds                                                                  *)
(***************************************************************************)
MaxCount == 2        \* saturation point of the event counters
JobTotal == 1        \* sub-tasks of the job served by the status endpoint
MaxScenes == 2       \* largest scene count of a story
MaxUrl == 1          \* distinct asset URLs the generation service returns
MaxInFlight == 2     \* per-scene requests outstanding at a time
MaxSaves == 2        \* saves of the story document outstanding at a time
MaxEdits == 2        \* changes of the story document within a session
FanOut == 3          \* sub-tasks of a fan-out job

(***************************************************************************)
(* Program constants                                                       *)
(***************************************************************************)
DefaultPollInterval == 2000

Min(a, b) == IF a < b THEN a ELSE b
Bump(n) == Min(n + 1, MaxCount)

VARIABLES
  \* ---- poller (api.pollJobUntilComplete) ----
  pc,            \* "fetching": getJobStatus in flight; "waiting": setTimeout pending; "stopped"
  promise,       \* "Polling" | "Resolved" | "Rejected"
  settleValue,   \* value passed to the first resolve/reject
  settleCount,   \* number of resolve/reject calls
  fetchCount,    \* number of getJobStatus calls issued
  cbCount,       \* number of onProgress invocations
  lastCb,        \* argument of the latest onProgress invocation
  cbThisTick,    \* did the latest poll() body invoke onProgress
  lastKind,      \* "none" | "ok" | "throw": how the latest getJobStatus ended
  lastResp,      \* the latest JobStatusResponse received
  lastErr,       \* the error the latest failed getJobStatus threw
  delay,         \* delay of the pending setTimeout, 0 when none
  hasCallback,   \* was onProgress supplied
  abandoned,     \* has the owner of the poller gone away
  \* ---- job record behind GET /api/job/{id} ----
  job,
  subTasks,      \* the executor's own result list of a fan-out job, 0 where not completed
  store,         \* the remote project store and StoryProvider's saves to it
  \* ---- story document (StoryProvider state) ----
  storyScenes,   \* scenes: SceneLine[]
  sceneImages,   \* sceneImages: string[], 0 stands for '' or a hole
  videos,        \* videos: string[]
  imagePrompts,  \* are imagePrompts populated
  videoPrompts,  \* the length of story.videoPrompts, one prompt per scene from the first on
  visualBlueprint, \* visualBlueprint: 0 for null
  finalVideoUrl,
  sceneCount,
  characterDescription, \* an input of the story that no watcher of StoryProvider observes
  storySignature,       \* the recorded signature of the inputs, NoSignature for ''
  \* ---- SceneGeneration component state ----
  mounted,
  scenes,        \* local Scene[] of the mounted component
  hasGeneratedRef,
  imagesGeneratedRef,
  areVideoPromptsReady,
  \* ---- asynchronous operations in flight ----
  imgOp,         \* per scene: generateSingleImage / retryImage awaiting its response
  vidOp,         \* per scene: animateScene / retryAnimation awaiting its response
  narrOp,        \* per scene: a narration request awaiting its response
  script,        \* generateScript and the prompt requests it chains
  imgBatch,      \* generateAllImages awaiting its job
  vidBatch,      \* generateAllVideos awaiting its job
  \* ---- history ----
  last           \* what the latest step wrote into the story document: the kind
                 \* of write; for a per-scene result its scene, its url and whether
                 \* a result of the other kind landed for another scene while the
                 \* request was in flight; for a partial merge the document
                 \* indices its payload populates; for a clearing and for a
                 \* per-scene image the indices that held a video; for the
                 \* submission of the final video the scenes it sent

pollVars == <<pc, promise, settleValue, settleCount, fetchCount, cbCount, lastCb,
              cbThisTick, lastKind, lastResp, lastErr, delay, hasCallback, abandoned>>
jobVars == <<job, subTasks, store>>
docVars == <<storyScenes, sceneImages, videos, imagePrompts, videoPrompts, visualBlueprint,
             finalVideoUrl,
             sceneCount, characterDescription, storySignature>>
inputVars == <<sceneCount, characterDescription, storySignature>>
compVars == <<mounted, scenes, hasGeneratedRef, imagesGeneratedRef, areVideoPromptsReady>>
opVars == <<imgOp, vidOp, narrOp>>
batchVars == <<script, imgBatch, vidBatch>>
histVars == <<last>>
storyVars == <<docVars, compVars, opVars, batchVars, histVars>>
vars == <<pollVars, jobVars, storyVars>>

(***************************************************************************)
(* JobStatusResponse                                                       *)
(***************************************************************************)
JobStates == {"PENDING", "STARTED", "PROGRESS", "SUCCESS", "FAILURE"}
\* a value outside the declared union, e.g. a task-queue state such as RETRY
StateValues == JobStates \cup {"RETRY"}
TerminalStates == {"SUCCESS", "FAILURE"}

\* result, error and progress are optional members: result comes with SUCCESS,
\* error with FAILURE, and current is read only when progress is present
JobStatusResponse ==
  {r \in [state: StateValues,
          hasProgress: BOOLEAN,            \* is the optional progress member present
          current: 0..JobTotal,
          total: {JobTotal},
          status: {"queued", "working"},
          partial_results: {"none", "some"},
          result: {"r1", "r2"},
          error: {"", "boom"}] :
     /\ r.state # "SUCCESS" => r.result = "r1"
     /\ r.state # "FAILURE" => r.error = ""
     /\ ~r.hasProgress => r.current = 0
     /\ r.state \in TerminalStates => r.status = "working"}

NoResponse == [state |-> "PENDING", hasProgress |-> FALSE, current |-> 0,
               total |-> JobTotal, status |-> "queued", partial_results |-> "none",
               result |-> "r1", error |-> ""]

\* the record of a job that was just enqueued
JobPending == NoResponse

\* no fan-out job is running
NoSubTasks == <<>>
\* StoryProvider after reset(): no project id, no save pending or in flight, and
\* nothing of this session in the project store
NoStore == [projectId |-> 0, timer |-> FALSE, version |-> 0, flights |-> <<>>,
            projects |-> 0, saved |-> 0]

NoCallback == [current |-> 0, total |-> 0, status |-> "", partialResults |-> "none"]

TransportErrors == {"NetworkError", "Failed to get job status"}

(***************************************************************************)
(* poll(): the decision taken on a status response                         *)
(***************************************************************************)
\* variant: the SUCCESS test is lost, every state that is neither running nor failed resolves
PollBranchEager(state) ==
  IF state = "PROGRESS" \/ state = "STARTED" THEN "progress"
  ELSE IF state = "FAILURE" THEN "reject"
  ELSE "resolve"

\* variant: the SUCCESS comparison never matches, so a finished job keeps being polled
PollBranchNoSuccess(state) ==
  IF state = "PROGRESS" \/ state = "STARTED" THEN "progress"
  ELSE IF state = "FAILURE" THEN "reject"
  ELSE "wait"

PollBranch(state) ==
  IF state = "PROGRESS" \/ state = "STARTED" THEN "progress"
  ELSE IF state = "SUCCESS" THEN "resolve"
  ELSE IF state = "FAILURE" THEN "reject"
  ELSE "wait"

\* variant: the progress member is not tested before the callback is called
CallsProgressUnchecked(resp) == hasCallback

CallsProgress(resp) == hasCallback /\ resp.hasProgress

ProgressArgs(resp) ==
  [current |-> resp.current, total |-> resp.total, status |-> resp.status,
   partialResults |-> resp.partial_results]

RejectReason(resp) == IF resp.error # "" THEN resp.error ELSE "Job failed"

\* variant: the next tick is scheduled after the branches instead of inside them
SchedulesNextAlways(branch) == TRUE

SchedulesNext(branch) == branch = "progress" \/ branch = "wait"

\* variant: the catch block retries the poll
CatchRetries == TRUE

CatchSchedulesNext == FALSE

\* variant: linear backoff on the number of polls issued
NextDelayBackoff(n) == DefaultPollInterval * n

\* n: number of getJobStatus calls issued so far
NextDelay(n) == DefaultPollInterval

Settle(how, value) ==
  /\ promise' = IF promise = "Polling" THEN how ELSE promise
  /\ settleValue' = IF promise = "Polling" THEN value ELSE settleValue
  /\ settleCount' = Bump(settleCount)

NoSettle == UNCHANGED <<promise, settleValue, settleCount>>

\* body of poll() after getJobStatus returned resp
Poll(resp) ==
  /\ pc = "fetching"
  /\ lastKind' = "ok"
  /\ lastResp' = resp
  /\ LET branch == PollBranch(resp.state)
         cb == branch = "progress" /\ CallsProgress(resp)
     IN /\ cbThisTick' = cb
        /\ cbCount' = IF cb THEN Bump(cbCount) ELSE cbCount
        /\ lastCb' = IF cb THEN ProgressArgs(resp) ELSE lastCb
        /\ IF branch = "resolve" THEN Settle("Resolved", resp.result)
           ELSE IF branch = "reject" THEN Settle("Rejected", RejectReason(resp))
           ELSE NoSettle
        /\ IF SchedulesNext(branch)
           THEN pc' = "waiting" /\ delay' = NextDelay(fetchCount)
           ELSE pc' = "stopped" /\ delay' = 0
  /\ UNCHANGED <<fetchCount, lastErr, hasCallback, abandoned>>

\* getJobStatus threw (fetch rejected, or the response was not ok): catch -> reject
PollThrow(err) ==
  /\ pc = "fetching"
  /\ lastKind' = "throw"
  /\ lastErr' = err
  /\ cbThisTick' = FALSE
  /\ Settle("Rejected", err)
  /\ IF CatchSchedulesNext
     THEN pc' = "waiting" /\ delay' = NextDelay(fetchCount)
     ELSE pc' = "stopped" /\ delay' = 0
  /\ UNCHANGED <<fetchCount, cbCount, lastCb, lastResp, hasCallback, abandoned>>

\* the pending setTimeout fires and poll() issues the next getJobStatus
TimerFires ==
  /\ pc = "waiting"
  /\ pc' = "fetching"
  /\ delay' = 0
  /\ fetchCount' = Bump(fetchCount)
  /\ UNCHANGED <<promise, settleValue, settleCount, cbCount, lastCb, cbThisTick,
                 lastKind, lastResp, lastErr, hasCallback, abandoned>>

\* the component that started the poller navigates away and unmounts;
\* pollJobUntilComplete takes no cancellation handle, so nothing else changes
Abandon ==
  /\ ~abandoned
  /\ abandoned' = TRUE
  /\ UNCHANGED <<pc, promise, settleValue, settleCount, fetchCount, cbCount, lastCb,
                 cbThisTick, lastKind, lastResp, lastErr, delay, hasCallback>>

\* state right after pollJobUntilComplete(jobId, onProgress) returned its promise:
\* poll() has been called once and its getJobStatus is in flight
InitPoller ==
  /\ pc = "fetching"
  /\ promise = "Polling"
  /\ settleValue = "none"
  /\ settleCount = 0
  /\ fetchCount = 1
  /\ cbCount = 0
  /\ lastCb = NoCallback
  /\ cbThisTick = FALSE
  /\ lastKind = "none"
  /\ lastResp = NoResponse
  /\ lastErr = "none"
  /\ delay = 0
  /\ hasCallback \in BOOLEAN
  /\ abandoned = FALSE

(***************************************************************************)
(* Story document and SceneGeneration state                                *)
(***************************************************************************)
\* asset URLs: 0 is the empty string, Urls are fresh results of the generation
\* service, SavedUrl is an asset a saved project already holds
Urls == 1..MaxUrl
SavedUrl == MaxUrl + 1
Max(a, b) == IF a > b THEN a ELSE b

\* s[idx] || ''
At(s, i) == IF i \in 1..Len(s) THEN s[i] ELSE 0

\* Array(n).fill('').map((_, idx) => s[idx] || '')
Resize(s, n) == [i \in 1..n |-> At(s, i)]

\* const updated = [...prev]; updated[i] = v   (a write past the end leaves holes)
SetAt(s, i, v) == [k \in 1..Max(Len(s), i) |-> IF k = i THEN v ELSE At(s, k)]

\* the values of the free-text character description
Descriptions == {"first", "second"}

\* the signature of the story inputs: the serialization of the inputs, of which
\* the scene count and the character description stand for all ten
Signature(count, description) ==
  [sceneCount |-> count, characterDescription |-> description]
NoSignature == [sceneCount |-> 0, characterDescription |-> ""]
CurrentSignature == Signature(sceneCount, characterDescription)

\* variant: an empty recorded signature counts as a change
SignatureChangedEager(recorded, current) == recorded # current

\* story.storySignature && story.storySignature !== currentSignature
SignatureChanged(recorded, current) ==
  recorded # NoSignature /\ recorded # current

\* variant: clearing keeps the recorded signature
ClearedSignatureKept(recorded) == recorded

\* setStorySignature('') of clearGeneratedContent
ClearedSignature(recorded) == NoSignature

SceneLine(n) == [scene_number |-> n, script_text |-> 0, narration_url |-> 0]

\* what reading a hole of the scenes array yields, every member absent
NoLine == [scene_number |-> 0, script_text |-> 0, narration_url |-> 0]
LineAt(s, i) == IF i \in 1..Len(s) THEN s[i] ELSE NoLine

\* const updatedScenes = [...s]; updatedScenes[i] = line
SetLineAt(s, i, line) ==
  [k \in 1..Max(Len(s), i) |-> IF k = i THEN line ELSE LineAt(s, k)]
ScriptScenes(n) == [i \in 1..n |-> SceneLine(i)]

\* the local Scene the resume effect builds from the story document
MappedScene(idx) ==
  [text |-> storyScenes[idx].script_text,
   narrationUrl |-> storyScenes[idx].narration_url,
   narrationStatus |-> IF storyScenes[idx].narration_url # 0 THEN "ready" ELSE "idle",
   imagePrompt |-> imagePrompts,
   videoPrompt |-> idx <= videoPrompts,
   imageUrl |-> At(sceneImages, idx),
   imageStatus |-> IF At(sceneImages, idx) # 0 THEN "ready" ELSE "idle",
   videoUrl |-> At(videos, idx),
   videoStatus |-> IF At(videos, idx) # 0 THEN "ready" ELSE "idle"]

MappedScenes == [idx \in 1..Len(storyScenes) |-> MappedScene(idx)]

IdleOp == [st |-> "idle", live |-> FALSE, sawOther |-> FALSE]
BusyOp == [st |-> "busy", live |-> TRUE, sawOther |-> FALSE]
NoOps == [i \in 1..MaxScenes |-> IdleOp]
IdleNarration ==
  [st |-> "idle", live |-> FALSE, kind |-> "none", text |-> 0, snapScenes |-> <<>>]
NoNarrations == [i \in 1..MaxScenes |-> IdleNarration]
NoStep ==
  [kind |-> "none", scene |-> 0, url |-> 0, second |-> FALSE, populated |-> {},
   request |-> <<>>]
Landed(kind, i, url, second) ==
  [NoStep EXCEPT !.kind = kind, !.scene = i, !.url = url, !.second = second]
Recon(kind, populated) == [NoStep EXCEPT !.kind = kind, !.populated = populated]
\* generateScript and what it leaves running.  st: the request the handler
\* awaits ("script", then "imagePrompts" for the Promise.all of the side-character
\* and image-prompt requests, then "videoPrompts"); prompts, side: the two
\* requests of the Promise.all; timer: the 300 ms timer of generateAllImages;
\* narr: the 2 s timer and the batch request of generateAllNarrations
IdleScript ==
  [st |-> "idle", timer |-> FALSE, live |-> FALSE, count |-> 0,
   snapImages |-> <<>>, snapVideos |-> <<>>,
   prompts |-> "none", side |-> "none", narr |-> "none"]
IdleImgBatch == [st |-> "idle", live |-> FALSE, n |-> 0, snapImages |-> <<>>]
IdleVidBatch ==
  [st |-> "idle", live |-> FALSE, n |-> 0, targets |-> <<>>, snapVideos |-> <<>>]
NoBatches == script = IdleScript /\ imgBatch = IdleImgBatch /\ vidBatch = IdleVidBatch

\* no story in progress and SceneGeneration not mounted
NoStory ==
  /\ storyScenes = <<>> /\ sceneImages = <<>> /\ videos = <<>>
  /\ imagePrompts = FALSE /\ videoPrompts = 0 /\ visualBlueprint = 0
  /\ finalVideoUrl = 0 /\ sceneCount = MaxScenes
  /\ characterDescription = "first" /\ storySignature = NoSignature
  /\ mounted = FALSE /\ scenes = <<>>
  /\ hasGeneratedRef = FALSE /\ imagesGeneratedRef = FALSE
  /\ areVideoPromptsReady = FALSE
  /\ imgOp = NoOps /\ vidOp = NoOps /\ narrOp = NoNarrations
  /\ NoBatches
  /\ last = NoStep

\* setScenes(prev => prev.map(s => s.id === sceneId ? f(s) : s)) of a component
\* that is still mounted; a state update of an unmounted component is dropped
MapScene(live, i, new) ==
  IF live /\ mounted /\ i \in 1..Len(scenes) THEN [scenes EXCEPT ![i] = new] ELSE scenes

\* story.setSceneImages(prevImages => { updated[sceneIndex] = url })
WriteImageAt(prevImages, idx, url) == SetAt(prevImages, idx, url)

\* variant: the video array is emptied instead of the one entry
ClearVideoAtAll(prevVideos, idx) == Resize(<<>>, Len(prevVideos))

\* variant: the video of the scene survives the new image
ClearVideoAtNever(prevVideos, idx) == prevVideos

\* story.setVideos(prevVideos => { updated[sceneIndex] = '' })
ClearVideoAt(prevVideos, idx) == SetAt(prevVideos, idx, 0)

\* story.setVideos(prevVideos => { updated[sceneIndex] = url })
WriteVideoAt(prevVideos, idx, url) == SetAt(prevVideos, idx, url)

\* the operations of the other kind that are in flight for another scene have now
\* seen a result land under them
MarkOthers(ops, i) ==
  [k \in 1..MaxScenes |-> IF k # i /\ ops[k].st = "busy"
                            THEN [ops[k] EXCEPT !.sawOther = TRUE] ELSE ops[k]]

\* number of per-scene requests in flight
RECURSIVE CountBusy(_, _)
CountBusy(ops, n) == IF n = 0 THEN 0 ELSE CountBusy(ops, n - 1) + (IF ops[n].st = "busy" THEN 1 ELSE 0)
InFlight == CountBusy(imgOp, MaxScenes) + CountBusy(vidOp, MaxScenes)

\* generateSingleImage up to its await: the button of an idle scene with a prompt
GenerateSingleImage(i) ==
  /\ mounted /\ i \in 1..Len(scenes)
  /\ scenes[i].imageStatus = "idle" /\ scenes[i].imagePrompt
  /\ imgOp[i].st = "idle"
  /\ scenes' = [scenes EXCEPT ![i].imageStatus = "generating"]
  /\ imgOp' = [imgOp EXCEPT ![i] = BusyOp]
  /\ last' = NoStep
  /\ UNCHANGED <<docVars, mounted, hasGeneratedRef, imagesGeneratedRef,
                 areVideoPromptsReady, vidOp, narrOp, batchVars>>

\* retryImage up to its await: the button of a ready or failed image
RetryImage(i) ==
  /\ mounted /\ i \in 1..Len(scenes)
  /\ scenes[i].imageStatus \in {"ready", "error"}
  /\ imgOp[i].st = "idle"
  /\ scenes' = [scenes EXCEPT ![i].imageStatus = "generating", ![i].imageUrl = 0]
  /\ imgOp' = [imgOp EXCEPT ![i] = BusyOp]
  /\ last' = NoStep
  /\ UNCHANGED <<docVars, mounted, hasGeneratedRef, imagesGeneratedRef,
                 areVideoPromptsReady, vidOp, narrOp, batchVars>>

\* generateSingleImage / retryImage after the await: the new image is stored and
\* the scene's video is cleared, both with functional updates
SingleImageDone(i, url) ==
  /\ imgOp[i].st = "busy"
  /\ scenes' = MapScene(imgOp[i].live, i,
                  [scenes[i] EXCEPT !.imageUrl = url, !.imageStatus = "ready",
                                    !.videoUrl = 0, !.videoStatus = "idle"])
  /\ sceneImages' = WriteImageAt(sceneImages, i, url)
  /\ videos' = ClearVideoAt(videos, i)
  /\ imgOp' = [imgOp EXCEPT ![i] = IdleOp]
  /\ vidOp' = MarkOthers(vidOp, i)
  /\ last' = [Landed("image", i, url, imgOp[i].sawOther) EXCEPT
                !.populated = {j \in 1..Len(videos) : videos[j] # 0}]
  /\ UNCHANGED <<storyScenes, imagePrompts, videoPrompts, visualBlueprint, finalVideoUrl, inputVars,
                 mounted, hasGeneratedRef, imagesGeneratedRef, areVideoPromptsReady,
                 narrOp, batchVars>>

\* generateSingleImage / retryImage: the request failed
SingleImageFails(i) ==
  /\ imgOp[i].st = "busy"
  /\ scenes' = MapScene(imgOp[i].live, i, [scenes[i] EXCEPT !.imageStatus = "error"])
  /\ imgOp' = [imgOp EXCEPT ![i] = IdleOp]
  /\ last' = NoStep
  /\ UNCHANGED <<docVars, mounted, hasGeneratedRef, imagesGeneratedRef,
                 areVideoPromptsReady, vidOp, narrOp, batchVars>>

\* animateScene up to its await: needs the scene's own image and video prompt
AnimateScene(i) ==
  /\ mounted /\ i \in 1..Len(scenes)
  /\ scenes[i].videoStatus = "idle" /\ scenes[i].imageStatus = "ready"
  /\ scenes[i].imageUrl # 0 /\ scenes[i].videoPrompt
  /\ vidOp[i].st = "idle"
  /\ scenes' = [scenes EXCEPT ![i].videoStatus = "generating"]
  /\ vidOp' = [vidOp EXCEPT ![i] = BusyOp]
  /\ last' = NoStep
  /\ UNCHANGED <<docVars, mounted, hasGeneratedRef, imagesGeneratedRef,
                 areVideoPromptsReady, imgOp, narrOp, batchVars>>

\* retryAnimation up to its await: the button of a ready video
RetryAnimation(i) ==
  /\ mounted /\ i \in 1..Len(scenes)
  /\ scenes[i].videoStatus = "ready"
  /\ scenes[i].imageUrl # 0
  /\ vidOp[i].st = "idle"
  /\ scenes' = [scenes EXCEPT ![i].videoStatus = "generating", ![i].videoUrl = 0]
  /\ vidOp' = [vidOp EXCEPT ![i] = BusyOp]
  /\ last' = NoStep
  /\ UNCHANGED <<docVars, mounted, hasGeneratedRef, imagesGeneratedRef,
                 areVideoPromptsReady, imgOp, narrOp, batchVars>>

\* animateScene / retryAnimation after the await: the new video is stored with a
\* functional update and the final video is cleared
SingleVideoDone(i, url) ==
  /\ vidOp[i].st = "busy"
  /\ scenes' = MapScene(vidOp[i].live, i,
                  [scenes[i] EXCEPT !.videoUrl = url, !.videoStatus = "ready"])
  /\ videos' = WriteVideoAt(videos, i, url)
  /\ finalVideoUrl' = 0
  /\ vidOp' = [vidOp EXCEPT ![i] = IdleOp]
  /\ imgOp' = MarkOthers(imgOp, i)
  /\ last' = Landed("video", i, url, vidOp[i].sawOther)
  /\ UNCHANGED <<storyScenes, sceneImages, imagePrompts, videoPrompts, visualBlueprint, inputVars,
                 mounted, hasGeneratedRef, imagesGeneratedRef, areVideoPromptsReady,
                 narrOp, batchVars>>

\* animateScene / retryAnimation: the request failed
SingleVideoFails(i) ==
  /\ vidOp[i].st = "busy"
  /\ scenes' = MapScene(vidOp[i].live, i, [scenes[i] EXCEPT !.videoStatus = "error"])
  /\ vidOp' = [vidOp EXCEPT ![i] = IdleOp]
  /\ last' = NoStep
  /\ UNCHANGED <<docVars, mounted, hasGeneratedRef, imagesGeneratedRef,
                 areVideoPromptsReady, imgOp, narrOp, batchVars>>

(***************************************************************************)
(* Script generation, batch generation and navigation                      *)
(*                                                                         *)
(* A request handler keeps the story object of the render that created it: *)
(* story.sceneImages and story.videos read after an await are the values   *)
(* of that render (snapImages, snapVideos), not the current document.      *)
(* One request of each kind is tracked at a time.                          *)
(***************************************************************************)
\* the local Scene generateScript builds for a fresh script line
InitialScene ==
  [text |-> 0, narrationUrl |-> 0, narrationStatus |-> "idle",
   imagePrompt |-> FALSE, videoPrompt |-> FALSE,
   imageUrl |-> 0, imageStatus |-> "idle",
   videoUrl |-> 0, videoStatus |-> "idle"]

\* a local state update of a handler whose component is still mounted
Local(live, new) == IF live /\ mounted THEN new ELSE scenes

\* isGeneratingScript || isGeneratingImages || scenes.some(... === 'generating')
hasActiveOperations ==
  \/ script.live /\ script.st = "script"
  \/ script.live /\ script.narr = "busy"
  \/ imgBatch.live /\ imgBatch.st = "busy"
  \/ \E i \in 1..Len(scenes) :
        \/ scenes[i].narrationStatus = "generating"
        \/ scenes[i].imageStatus = "generating" \/ scenes[i].videoStatus = "generating"

\* StoryProvider.clearGeneratedContent
clearGeneratedContent ==
  /\ storyScenes' = <<>>
  /\ imagePrompts' = FALSE /\ videoPrompts' = 0 /\ visualBlueprint' = 0
  /\ sceneImages' = <<>> /\ videos' = <<>>
  /\ finalVideoUrl' = 0
  /\ storySignature' = ClearedSignature(storySignature)

\* variant: the length fix is lost
FixLengthNever(snap, cur, n) == cur

\* variant: the length fix starts from an empty array
FixLengthBlank(snap, cur, n) == IF Len(snap) # n THEN [i \in 1..n |-> 0] ELSE cur

\* the length fix of the resume effect and of generateScript: the array read
\* from the handler's story object is padded or cut when its length differs
FixLength(snap, cur, n) == IF Len(snap) # n THEN Resize(snap, n) ELSE cur

\* the scene-count input of the narration page changes while SceneGeneration is
\* not on screen; the watcher of StoryProvider clears the generated content
ChangeSceneCount(n) ==
  /\ ~mounted /\ n # sceneCount
  /\ sceneCount' = n
  /\ clearGeneratedContent
  /\ last' = Recon("clear", {i \in 1..Len(videos) : videos[i] # 0})
  /\ UNCHANGED <<characterDescription, compVars, opVars, batchVars>>

\* the character description is edited on the character page while
\* SceneGeneration is not on screen; no watcher of StoryProvider observes it
ChangeCharacterDescription(d) ==
  /\ ~mounted /\ d # characterDescription
  /\ characterDescription' = d
  /\ last' = NoStep
  /\ UNCHANGED <<storyScenes, sceneImages, videos, imagePrompts, videoPrompts, visualBlueprint,
                 finalVideoUrl, sceneCount, storySignature, compVars, opVars, batchVars>>

\* SceneGeneration mounts and its effects run in the order of their
\* declaration, both on the story object of the first render: the signature
\* effect clears the generated content when the recorded signature differs from
\* the inputs and records the current signature; the script effect resumes a
\* story that has scenes and otherwise starts generateScript.  The state
\* updates of both are applied together, the later write to a field winning.
Mount ==
  /\ ~mounted
  /\ mounted' = TRUE
  /\ hasGeneratedRef' = TRUE
  /\ storySignature' = CurrentSignature
  /\ LET changed == SignatureChanged(storySignature, CurrentSignature)
         held == {i \in 1..Len(videos) : videos[i] # 0} IN
     /\ storyScenes' = IF changed THEN <<>> ELSE storyScenes
     /\ imagePrompts' = (~changed /\ imagePrompts)
     /\ videoPrompts' = IF changed THEN 0 ELSE videoPrompts
     /\ visualBlueprint' = IF changed THEN 0 ELSE visualBlueprint
     /\ finalVideoUrl' = IF changed THEN 0 ELSE finalVideoUrl
     /\ IF Len(storyScenes) > 0
        THEN /\ scenes' = MappedScenes
             /\ videos' = FixLength(videos, IF changed THEN <<>> ELSE videos,
                                    Len(storyScenes))
             /\ sceneImages' = FixLength(sceneImages,
                                         IF changed THEN <<>> ELSE sceneImages,
                                         Len(storyScenes))
             /\ imagesGeneratedRef' = \E i \in 1..Len(sceneImages) : sceneImages[i] # 0
             /\ areVideoPromptsReady' = (videoPrompts > 0)
             /\ last' = IF changed THEN Recon("clear", held)
                        ELSE IF Len(videos) # Len(storyScenes)
                                \/ Len(sceneImages) # Len(storyScenes)
                        THEN Recon("resumeResized", {})
                        ELSE Recon("resume", {})
             /\ UNCHANGED script
        ELSE /\ script = IdleScript
             /\ scenes' = <<>>
             /\ imagesGeneratedRef' = FALSE
             /\ areVideoPromptsReady' = FALSE
             /\ script' = [IdleScript EXCEPT !.st = "script", !.live = TRUE,
                                             !.count = sceneCount,
                                             !.snapImages = sceneImages,
                                             !.snapVideos = videos]
             /\ videos' = IF changed THEN <<>> ELSE videos
             /\ sceneImages' = IF changed THEN <<>> ELSE sceneImages
             /\ last' = IF changed THEN Recon("clear", held) ELSE NoStep
  /\ UNCHANGED <<sceneCount, characterDescription, opVars, imgBatch, vidBatch>>

\* the Back button, disabled while hasActiveOperations; requests still in flight
\* are not cancelled and lose their component
LeavePage ==
  /\ mounted /\ ~hasActiveOperations
  /\ mounted' = FALSE
  /\ scenes' = <<>>
  /\ hasGeneratedRef' = FALSE /\ imagesGeneratedRef' = FALSE
  /\ areVideoPromptsReady' = FALSE
  /\ imgOp' = [i \in 1..MaxScenes |-> [imgOp[i] EXCEPT !.live = FALSE]]
  /\ vidOp' = [i \in 1..MaxScenes |-> [vidOp[i] EXCEPT !.live = FALSE]]
  /\ narrOp' = [i \in 1..MaxScenes |-> [narrOp[i] EXCEPT !.live = FALSE]]
  /\ script' = [script EXCEPT !.live = FALSE]
  /\ imgBatch' = [imgBatch EXCEPT !.live = FALSE]
  /\ vidBatch' = [vidBatch EXCEPT !.live = FALSE]
  /\ last' = NoStep
  /\ UNCHANGED <<docVars>>

\* the script handler has no request and no timer left
Retire(s) == IF s.st = "idle" /\ ~s.timer /\ s.narr = "none" THEN IdleScript ELSE s

\* generateScript after its await: the script is stored, the sibling arrays are
\* sized from the handler's story object, the scenes are shown, the narration
\* timer is set and the side-character and image-prompt requests are sent;
\* sideCharacters: does the blueprint name side characters
ScriptArrives(sideCharacters) ==
  /\ script.st = "script"
  /\ storyScenes' = ScriptScenes(script.count)
  /\ videos' = FixLength(script.snapVideos, videos, script.count)
  /\ sceneImages' = FixLength(script.snapImages, sceneImages, script.count)
  /\ scenes' = Local(script.live, [i \in 1..script.count |-> InitialScene])
  /\ script' = [script EXCEPT !.st = "imagePrompts", !.prompts = "busy",
                              !.side = IF sideCharacters THEN "busy" ELSE "none",
                              !.narr = "timer"]
  /\ last' = Recon("script", {})
  /\ UNCHANGED <<imagePrompts, videoPrompts, visualBlueprint, finalVideoUrl, inputVars, mounted,
                 hasGeneratedRef, imagesGeneratedRef, areVideoPromptsReady,
                 opVars, imgBatch, vidBatch>>

\* generateScript: the script request failed; hasGeneratedRef stays set
ScriptFails ==
  /\ script.st = "script"
  /\ script' = IdleScript
  /\ last' = NoStep
  /\ UNCHANGED <<docVars, compVars, opVars, imgBatch, vidBatch>>

\* variant: the continuation waits for the image prompts only
PromptsSettled(side, prompts) == prompts # "busy"

\* Promise.all of the side-character and the image-prompt request has resolved
BothSettled(side, prompts) == side # "busy" /\ prompts # "busy"

\* variant: the image prompts are not tested before the continuation goes on
HasImagePromptsUnchecked(prompts) == TRUE

\* if (imagePromptsResponse)
HasImagePrompts(prompts) == prompts = "done"

\* variant: a failure of the side-character request ends the image branch
AfterBothAborting(s) ==
  IF ~BothSettled(s.side, s.prompts) THEN s
  ELSE IF HasImagePrompts(s.prompts) /\ s.side # "failed"
  THEN [s EXCEPT !.st = "videoPrompts", !.timer = TRUE]
  ELSE Retire([s EXCEPT !.st = "idle"])

\* what follows the Promise.all: with image prompts, the 300 ms timer of
\* generateAllImages is set and the video prompts are requested at once
AfterBoth(s) ==
  IF ~BothSettled(s.side, s.prompts) THEN s
  ELSE IF HasImagePrompts(s.prompts)
  THEN [s EXCEPT !.st = "videoPrompts", !.timer = TRUE]
  ELSE Retire([s EXCEPT !.st = "idle"])

\* if (imgPromptsResponse.visual_blueprint)
\*   story.setVisualBlueprint(imgPromptsResponse.visual_blueprint)
StoredBlueprint(stored, blueprint) == IF blueprint # 0 THEN blueprint ELSE stored

\* api.generateImagePrompts resolved: the prompts are stored and shown;
\* blueprint: the visual_blueprint of the response, 0 when it has none
ImagePromptsArrive(blueprint) ==
  /\ script.st = "imagePrompts" /\ script.prompts = "busy"
  /\ imagePrompts' = TRUE
  /\ visualBlueprint' = StoredBlueprint(visualBlueprint, blueprint)
  /\ scenes' = Local(script.live,
                     [i \in 1..Len(scenes) |-> [scenes[i] EXCEPT !.imagePrompt = TRUE]])
  /\ script' = AfterBoth([script EXCEPT !.prompts = "done"])
  /\ last' = NoStep
  /\ UNCHANGED <<storyScenes, sceneImages, videos, videoPrompts, finalVideoUrl,
                 inputVars, mounted, hasGeneratedRef, imagesGeneratedRef,
                 areVideoPromptsReady, opVars, imgBatch, vidBatch>>

\* api.generateImagePrompts failed: neither images nor video prompts follow
ImagePromptsFail ==
  /\ script.st = "imagePrompts" /\ script.prompts = "busy"
  /\ script' = AfterBoth([script EXCEPT !.prompts = "failed"])
  /\ last' = NoStep
  /\ UNCHANGED <<docVars, compVars, opVars, imgBatch, vidBatch>>

\* api.generateSideCharacterImages resolved or failed (the failure is caught and
\* the request counts as settled)
SideCharactersSettle(ok) ==
  /\ script.st = "imagePrompts" /\ script.side = "busy"
  /\ script' = AfterBoth([script EXCEPT !.side = IF ok THEN "done" ELSE "failed"])
  /\ last' = NoStep
  /\ UNCHANGED <<docVars, compVars, opVars, imgBatch, vidBatch>>

\* api.generateVideoPrompts resolved
VideoPromptsArrive ==
  /\ script.st = "videoPrompts"
  /\ videoPrompts' = script.count
  /\ scenes' = Local(script.live,
                     [i \in 1..Len(scenes) |->
                        [scenes[i] EXCEPT !.videoPrompt = (i <= script.count)]])
  /\ areVideoPromptsReady' = IF script.live /\ mounted THEN TRUE ELSE areVideoPromptsReady
  /\ script' = Retire([script EXCEPT !.st = "idle"])
  /\ last' = NoStep
  /\ UNCHANGED <<storyScenes, sceneImages, videos, imagePrompts, visualBlueprint,
                 finalVideoUrl, inputVars, mounted, hasGeneratedRef,
                 imagesGeneratedRef, opVars, imgBatch, vidBatch>>

\* api.generateVideoPrompts failed
VideoPromptsFail ==
  /\ script.st = "videoPrompts"
  /\ script' = Retire([script EXCEPT !.st = "idle"])
  /\ last' = NoStep
  /\ UNCHANGED <<docVars, compVars, opVars, imgBatch, vidBatch>>

\* the 300 ms timer fires: setScenes(currentScenes => generateAllImages(currentScenes)),
\* which runs for a mounted component only; generateAllImages up to its await
StartImageBatch ==
  /\ script.timer
  /\ script' = Retire([script EXCEPT !.timer = FALSE])
  /\ IF script.live /\ mounted /\ ~imagesGeneratedRef
     THEN /\ imgBatch.st = "idle"
          /\ imagesGeneratedRef' = TRUE
          /\ scenes' = [i \in 1..Len(scenes) |->
                          [scenes[i] EXCEPT !.imageStatus = "generating"]]
          /\ imgBatch' = [st |-> "busy", live |-> TRUE, n |-> Len(scenes),
                          snapImages |-> script.snapImages]
     ELSE UNCHANGED <<imagesGeneratedRef, scenes, imgBatch>>
  /\ last' = NoStep
  /\ UNCHANGED <<docVars, mounted, hasGeneratedRef, areVideoPromptsReady, opVars,
                 vidBatch>>

\* a narration batch that waited for the image prompts (not the code)
NarrationAfterImagePrompts(s) == s.narr = "timer" /\ s.prompts # "busy"
\* setTimeout(() => generateAllNarrations(response.scenes), 2000): nothing but
\* the timer holds the narration batch back
NarrationDue(s) == s.narr = "timer"

\* the 2 s timer fires: generateAllNarrations(response.scenes) up to its await
StartNarrationBatch ==
  /\ NarrationDue(script)
  /\ script' = [script EXCEPT !.narr = "busy"]
  /\ scenes' = Local(script.live,
                     [i \in 1..Len(scenes) |->
                        [scenes[i] EXCEPT !.narrationStatus = "generating"]])
  /\ last' = NoStep
  /\ UNCHANGED <<docVars, mounted, hasGeneratedRef, imagesGeneratedRef,
                 areVideoPromptsReady, opVars, imgBatch, vidBatch>>

\* a narration write that keeps its URLs only when it lands before the scene
\* images (not the code)
NarratedUnlessImages(n, result) ==
  [i \in 1..n |->
     [SceneLine(i) EXCEPT
        !.narration_url = IF \E k \in 1..Len(sceneImages) : sceneImages[k] # 0
                          THEN 0 ELSE result[i]]]

\* scenesData.map((scene, idx) => ({...scene, narration_url: ...audio_url || null})),
\* scenesData being the scenes of the script response
NarratedScenes(n, result) ==
  [i \in 1..n |-> [SceneLine(i) EXCEPT !.narration_url = result[i]]]

\* generateAllNarrations after its await; result[i] is 0 for a missing audio_url
NarrationBatchDone(result) ==
  /\ script.narr = "busy"
  /\ scenes' = Local(script.live,
                     [i \in 1..Len(scenes) |->
                        [scenes[i] EXCEPT
                           !.narrationUrl = At(result, i),
                           !.narrationStatus = IF At(result, i) # 0 THEN "ready"
                                               ELSE "error"]])
  /\ storyScenes' = NarratedScenes(script.count, result)
  /\ script' = Retire([script EXCEPT !.narr = "none"])
  /\ last' = Recon("narrations", {i \in 1..script.count : result[i] # 0})
  /\ UNCHANGED <<sceneImages, videos, imagePrompts, videoPrompts, visualBlueprint, finalVideoUrl,
                 inputVars, mounted, hasGeneratedRef, imagesGeneratedRef,
                 areVideoPromptsReady, opVars, imgBatch, vidBatch>>

\* generateAllNarrations: the batch request failed
NarrationBatchFails ==
  /\ script.narr = "busy"
  /\ scenes' = Local(script.live,
                     [i \in 1..Len(scenes) |->
                        [scenes[i] EXCEPT !.narrationStatus = "error"]])
  /\ script' = Retire([script EXCEPT !.narr = "none"])
  /\ last' = NoStep
  /\ UNCHANGED <<docVars, mounted, hasGeneratedRef, imagesGeneratedRef,
                 areVideoPromptsReady, opVars, imgBatch, vidBatch>>

\* the set of document indices a payload populates, through the index map idx
Populated(payload, idx) == {idx[k] : k \in {k \in 1..Len(payload) : payload[k] # 0}}

\* const updatedImages = [...story.sceneImages];
\* partialImages.forEach((imageUrl, idx) => { if (imageUrl) updatedImages[idx] = imageUrl })
RECURSIVE MergeImages(_, _, _)
MergeImages(base, payload, k) ==
  IF k > Len(payload) THEN base
  ELSE MergeImages(IF payload[k] # 0 THEN SetAt(base, k, payload[k]) ELSE base,
                   payload, k + 1)

\* generateAllImages, progress callback with partialResults.scene_images
ImageBatchProgress(payload) ==
  /\ imgBatch.st = "busy"
  /\ scenes' = Local(imgBatch.live,
                     [i \in 1..Len(scenes) |->
                        IF At(payload, i) # 0
                        THEN [scenes[i] EXCEPT !.imageUrl = payload[i], !.imageStatus = "ready"]
                        ELSE scenes[i]])
  /\ sceneImages' = MergeImages(imgBatch.snapImages, payload, 1)
  /\ last' = Recon("images", Populated(payload, [k \in 1..Len(payload) |-> k]))
  /\ UNCHANGED <<storyScenes, videos, imagePrompts, videoPrompts, visualBlueprint, finalVideoUrl,
                 inputVars, mounted, hasGeneratedRef, imagesGeneratedRef,
                 areVideoPromptsReady, opVars, batchVars>>

\* generateAllImages after its await: response.scene_images replaces the array
ImageBatchDone(result) ==
  /\ imgBatch.st = "busy"
  /\ scenes' = Local(imgBatch.live,
                     [i \in 1..Len(scenes) |->
                        [scenes[i] EXCEPT !.imageUrl = At(result, i), !.imageStatus = "ready"]])
  /\ sceneImages' = result
  /\ imgBatch' = IdleImgBatch
  /\ last' = Recon("imagesFinal", {})
  /\ UNCHANGED <<storyScenes, videos, imagePrompts, videoPrompts, visualBlueprint, finalVideoUrl,
                 inputVars, mounted, hasGeneratedRef, imagesGeneratedRef,
                 areVideoPromptsReady, opVars, script, vidBatch>>

\* generateAllImages: the job failed
ImageBatchFails ==
  /\ imgBatch.st = "busy"
  /\ scenes' = Local(imgBatch.live,
                     [i \in 1..Len(scenes) |-> [scenes[i] EXCEPT !.imageStatus = "error"]])
  /\ imgBatch' = IdleImgBatch
  /\ last' = NoStep
  /\ UNCHANGED <<docVars, mounted, hasGeneratedRef, imagesGeneratedRef,
                 areVideoPromptsReady, opVars, script, vidBatch>>

\* scenes.filter(s => s.imageUrl && s.videoStatus === 'idle'), as scene indices
IsVideoTarget(sc) == sc.imageUrl # 0 /\ sc.videoStatus = "idle"
ScenesWithImages(scs) ==
  LET Test(i) == IsVideoTarget(scs[i])
  IN SelectSeq([i \in 1..Len(scs) |-> i], Test)

\* scenesWithImages.findIndex(s => s.id === scene.id), 0 for -1
FindIndex(targets, i) ==
  IF \E k \in 1..Len(targets) : targets[k] = i
  THEN CHOOSE k \in 1..Len(targets) : targets[k] = i
  ELSE 0

allImagesReady ==
  Len(scenes) > 0 /\ \A i \in 1..Len(scenes) : scenes[i].imageStatus = "ready"

\* a batch submitted without looking at the prompts (not the code)
PromptsUnchecked(scs, targets) == TRUE
\* scenesWithImages.filter(s => !s.videoPrompt).length === 0
AllPromptsReady(scs, targets) ==
  \A k \in 1..Len(targets) : scs[targets[k]].videoPrompt

\* generateAllVideos up to its await; the button shows when every image is ready,
\* some scene is a target and the video prompts are ready
GenerateAllVideos ==
  /\ mounted /\ allImagesReady /\ areVideoPromptsReady
  /\ vidBatch.st = "idle"
  /\ LET targets == ScenesWithImages(scenes) IN
     /\ Len(targets) > 0
     /\ AllPromptsReady(scenes, targets)
     /\ scenes' = [i \in 1..Len(scenes) |->
                     IF IsVideoTarget(scenes[i])
                     THEN [scenes[i] EXCEPT !.videoStatus = "generating"]
                     ELSE scenes[i]]
     /\ vidBatch' = [st |-> "busy", live |-> TRUE, n |-> Len(scenes),
                     targets |-> targets, snapVideos |-> videos]
  /\ last' = NoStep
  /\ UNCHANGED <<docVars, mounted, hasGeneratedRef, imagesGeneratedRef,
                 areVideoPromptsReady, opVars, script, imgBatch>>

\* currentScenes.map(scene => target with a partial video ? that video
\*                                                         : story.videos[index] || '')
MergeVideos(snapVideos, targets, payload, n) ==
  [i \in 1..n |->
     IF FindIndex(targets, i) # 0 /\ At(payload, FindIndex(targets, i)) # 0
     THEN payload[FindIndex(targets, i)]
     ELSE At(snapVideos, i)]

\* updatedVideos.some((url, idx) => url !== story.videos[idx])
HasChanges(updated, snapVideos) ==
  \E i \in 1..Len(updated) : i > Len(snapVideos) \/ updated[i] # snapVideos[i]

\* generateAllVideos, progress callback with partialResults.videos; the document
\* is written from inside a setScenes updater, which runs for a mounted
\* component only
VideoBatchProgress(payload) ==
  /\ vidBatch.st = "busy"
  /\ scenes' = Local(vidBatch.live,
                     [i \in 1..Len(scenes) |->
                        LET k == FindIndex(vidBatch.targets, i) IN
                        IF k # 0 /\ At(payload, k) # 0 /\ scenes[i].videoUrl # payload[k]
                        THEN [scenes[i] EXCEPT !.videoUrl = payload[k], !.videoStatus = "ready"]
                        ELSE scenes[i]])
  /\ LET updated == MergeVideos(vidBatch.snapVideos, vidBatch.targets, payload, Len(scenes))
     IN videos' = IF vidBatch.live /\ mounted /\ HasChanges(updated, vidBatch.snapVideos)
                  THEN updated ELSE videos
  /\ last' = Recon("videos", Populated(payload, vidBatch.targets))
  /\ UNCHANGED <<storyScenes, sceneImages, imagePrompts, videoPrompts, visualBlueprint, finalVideoUrl,
                 inputVars, mounted, hasGeneratedRef, imagesGeneratedRef,
                 areVideoPromptsReady, opVars, batchVars>>

\* generateAllVideos after its await: the target scenes take response.videos, the
\* other entries are rewritten from the handler's story object
VideoBatchDone(result) ==
  /\ vidBatch.st = "busy"
  /\ scenes' = Local(vidBatch.live,
                     [i \in 1..Len(scenes) |->
                        LET k == FindIndex(vidBatch.targets, i) IN
                        IF k # 0
                        THEN [scenes[i] EXCEPT !.videoUrl = result[k], !.videoStatus = "ready"]
                        ELSE scenes[i]])
  /\ videos' = MergeVideos(vidBatch.snapVideos, vidBatch.targets, result, vidBatch.n)
  /\ finalVideoUrl' = 0
  /\ vidBatch' = IdleVidBatch
  /\ last' = Recon("videosFinal", {})
  /\ UNCHANGED <<storyScenes, sceneImages, imagePrompts, videoPrompts, visualBlueprint, inputVars,
                 mounted, hasGeneratedRef, imagesGeneratedRef, areVideoPromptsReady,
                 opVars, script, imgBatch>>

\* generateAllVideos: the job failed
VideoBatchFails ==
  /\ vidBatch.st = "busy"
  /\ scenes' = Local(vidBatch.live,
                     [i \in 1..Len(scenes) |->
                        IF scenes[i].videoStatus = "generating"
                        THEN [scenes[i] EXCEPT !.videoStatus = "error"]
                        ELSE scenes[i]])
  /\ vidBatch' = IdleVidBatch
  /\ last' = NoStep
  /\ UNCHANGED <<docVars, mounted, hasGeneratedRef, imagesGeneratedRef,
                 areVideoPromptsReady, opVars, script, imgBatch>>

(***************************************************************************)
(* Specification SpecScene: per-scene regeneration on a resumed story      *)
(***************************************************************************)
\* a story of MaxScenes scenes whose prompts exist, resumed by the mount effect;
\* at most MaxInFlight per-scene requests are outstanding at a time
InitScene ==
  /\ InitPoller /\ hasCallback /\ job = JobPending /\ subTasks = NoSubTasks /\ store = NoStore
  /\ storyScenes = ScriptScenes(MaxScenes)
  /\ sceneImages \in [1..MaxScenes -> {0, SavedUrl}]
  /\ videos \in {[i \in 1..MaxScenes |-> 0], sceneImages}
  /\ imagePrompts = TRUE /\ videoPrompts = MaxScenes /\ visualBlueprint = 0
  /\ finalVideoUrl \in {0, SavedUrl}
  /\ finalVideoUrl # 0 => \A i \in 1..MaxScenes : videos[i] # 0
  /\ sceneCount = MaxScenes
  /\ characterDescription = "first" /\ storySignature = CurrentSignature
  /\ mounted = TRUE
  /\ scenes = MappedScenes
  /\ hasGeneratedRef = TRUE
  /\ imagesGeneratedRef = \E i \in 1..MaxScenes : sceneImages[i] # 0
  /\ areVideoPromptsReady = TRUE
  /\ imgOp = NoOps /\ vidOp = NoOps /\ narrOp = NoNarrations
  /\ NoBatches
  /\ last = NoStep

ClickGenerateImage ==
  /\ InFlight < MaxInFlight
  /\ \E i \in 1..MaxScenes : GenerateSingleImage(i)
  /\ UNCHANGED <<pollVars, jobVars>>
ClickRetryImage ==
  /\ InFlight < MaxInFlight
  /\ \E i \in 1..MaxScenes : RetryImage(i)
  /\ UNCHANGED <<pollVars, jobVars>>
ImageArrives ==
  \E i \in 1..MaxScenes, url \in Urls : SingleImageDone(i, url) /\ UNCHANGED <<pollVars, jobVars>>
ImageFails == \E i \in 1..MaxScenes : SingleImageFails(i) /\ UNCHANGED <<pollVars, jobVars>>
ClickAnimate ==
  /\ InFlight < MaxInFlight
  /\ \E i \in 1..MaxScenes : AnimateScene(i)
  /\ UNCHANGED <<pollVars, jobVars>>
ClickRetryAnimation ==
  /\ InFlight < MaxInFlight
  /\ \E i \in 1..MaxScenes : RetryAnimation(i)
  /\ UNCHANGED <<pollVars, jobVars>>
VideoArrives ==
  \E i \in 1..MaxScenes, url \in Urls : SingleVideoDone(i, url) /\ UNCHANGED <<pollVars, jobVars>>
VideoFails == \E i \in 1..MaxScenes : SingleVideoFails(i) /\ UNCHANGED <<pollVars, jobVars>>

\* a failed request writes nothing into the document; ImageFails and VideoFails
\* are not part of this specification
NextScene ==
  \/ ClickGenerateImage \/ ClickRetryImage \/ ImageArrives
  \/ ClickAnimate \/ ClickRetryAnimation \/ VideoArrives
SpecScene == InitScene /\ [][NextScene]_vars

(***************************************************************************)
(* Specification SpecStory: a story generated, left, resumed and           *)
(* regenerated on the SceneGeneration page, with the batch requests only   *)
(***************************************************************************)
\* partialResults arrays of at most n entries, each empty or a URL
Payloads(n) == UNION {[1..k -> {0} \cup Urls] : k \in 0..n}
\* final result arrays: one URL per sub-task
Results(n) == [1..n -> Urls]

InitStory == InitPoller /\ hasCallback /\ job = JobPending /\ subTasks = NoSubTasks /\ store = NoStore /\ NoStory

PageMounts == Mount /\ UNCHANGED <<pollVars, jobVars>>
BackClicked == LeavePage /\ UNCHANGED <<pollVars, jobVars>>
SceneCountChanges ==
  \E n \in 1..MaxScenes : ChangeSceneCount(n) /\ UNCHANGED <<pollVars, jobVars>>
DescriptionChanges ==
  \E d \in Descriptions : ChangeCharacterDescription(d) /\ UNCHANGED <<pollVars, jobVars>>
ScriptResolves ==
  \E sideCharacters \in BOOLEAN :
     ScriptArrives(sideCharacters) /\ UNCHANGED <<pollVars, jobVars>>
ScriptRejects == ScriptFails /\ UNCHANGED <<pollVars, jobVars>>
\* a response without a visual_blueprint
ImagePromptsResolve == ImagePromptsArrive(0) /\ UNCHANGED <<pollVars, jobVars>>
ImagePromptsReject == ImagePromptsFail /\ UNCHANGED <<pollVars, jobVars>>
SideCharactersSettled ==
  \E ok \in BOOLEAN : SideCharactersSettle(ok) /\ UNCHANGED <<pollVars, jobVars>>
NarrationTimerFires == StartNarrationBatch /\ UNCHANGED <<pollVars, jobVars>>
NarrationBatchResolves ==
  \E result \in [1..script.count -> {0} \cup Urls] :
     NarrationBatchDone(result) /\ UNCHANGED <<pollVars, jobVars>>
NarrationBatchRejects == NarrationBatchFails /\ UNCHANGED <<pollVars, jobVars>>
VideoPromptsResolve == VideoPromptsArrive /\ UNCHANGED <<pollVars, jobVars>>
VideoPromptsReject == VideoPromptsFail /\ UNCHANGED <<pollVars, jobVars>>
ImageTimerFires == StartImageBatch /\ UNCHANGED <<pollVars, jobVars>>
ImagePartial ==
  \E payload \in Payloads(imgBatch.n) :
     ImageBatchProgress(payload) /\ UNCHANGED <<pollVars, jobVars>>
ImageBatchResolves ==
  \E result \in Results(imgBatch.n) :
     ImageBatchDone(result) /\ UNCHANGED <<pollVars, jobVars>>
ImageBatchRejects == ImageBatchFails /\ UNCHANGED <<pollVars, jobVars>>
ClickGenerateAllVideos == GenerateAllVideos /\ UNCHANGED <<pollVars, jobVars>>
VideoPartial ==
  \E payload \in Payloads(Len(vidBatch.targets)) :
     VideoBatchProgress(payload) /\ UNCHANGED <<pollVars, jobVars>>
VideoBatchResolves ==
  \E result \in Results(Len(vidBatch.targets)) :
     VideoBatchDone(result) /\ UNCHANGED <<pollVars, jobVars>>
VideoBatchRejects == VideoBatchFails /\ UNCHANGED <<pollVars, jobVars>>

NextStory ==
  \/ PageMounts \/ BackClicked \/ SceneCountChanges
  \/ ScriptResolves \/ ScriptRejects
  \/ ImagePromptsResolve \/ ImagePromptsReject \/ SideCharactersSettled
  \/ NarrationTimerFires \/ NarrationBatchResolves \/ NarrationBatchRejects
  \/ VideoPromptsResolve \/ VideoPromptsReject
  \/ ImageTimerFires \/ ImagePartial \/ ImageBatchResolves \/ ImageBatchRejects
  \/ ClickGenerateAllVideos \/ VideoPartial \/ VideoBatchResolves \/ VideoBatchRejects
SpecStory == InitStory /\ [][NextStory]_vars

(***************************************************************************)
(* SpecPipeline: one fresh story from the script request to the scene      *)
(* images, with every request generateScript leaves running                *)
(***************************************************************************)
NextPipeline ==
  \/ PageMounts \/ BackClicked
  \/ ScriptResolves \/ ScriptRejects
  \/ ImagePromptsResolve \/ ImagePromptsReject \/ SideCharactersSettled
  \/ NarrationTimerFires \/ NarrationBatchResolves \/ NarrationBatchRejects
  \/ VideoPromptsResolve \/ VideoPromptsReject
  \/ ImageTimerFires \/ ImageBatchResolves \/ ImageBatchRejects
SpecPipeline == InitStory /\ [][NextPipeline]_vars

(***************************************************************************)
(* SpecVideo: stories generated one after the other on the SceneGeneration *)
(* page up to their videos: the batch video request with its progress and  *)
(* result, and the regeneration of a single video up to its submission     *)
(***************************************************************************)
NextVideo ==
  \/ PageMounts \/ BackClicked \/ SceneCountChanges
  \/ ScriptResolves \/ ImagePromptsResolve \/ SideCharactersSettled
  \/ NarrationTimerFires \/ NarrationBatchRejects
  \/ VideoPromptsResolve \/ ImageTimerFires \/ ImageBatchResolves
  \/ ClickGenerateAllVideos \/ VideoPartial \/ VideoBatchResolves
  \/ ClickRetryAnimation
SpecVideo == InitStory /\ [][NextVideo]_vars

(***************************************************************************)
(* SpecSignature: the inputs of the story change between visits of         *)
(* SceneGeneration, which generates the script, the prompts and the images *)
(***************************************************************************)
\* StoryProvider after construction or after loadFromProject: a project without
\* scenes, or one whose saved scenes fill the three arrays index by index; the
\* load records the signature of the loaded inputs
InitSignature ==
  /\ InitPoller /\ hasCallback /\ job = JobPending /\ subTasks = NoSubTasks /\ store = NoStore
  /\ \E n \in {0, MaxScenes} :
        /\ storyScenes = ScriptScenes(n)
        /\ sceneImages \in [1..n -> {0, SavedUrl}]
        /\ videos \in {[i \in 1..n |-> 0], sceneImages}
        /\ imagePrompts = (n > 0) /\ videoPrompts = n
  /\ visualBlueprint = 0
  /\ finalVideoUrl = 0 /\ sceneCount = MaxScenes
  /\ characterDescription = "first"
  /\ storySignature \in
        {CurrentSignature} \cup (IF storyScenes = <<>> THEN {NoSignature} ELSE {})
  /\ mounted = FALSE /\ scenes = <<>>
  /\ hasGeneratedRef = FALSE /\ imagesGeneratedRef = FALSE
  /\ areVideoPromptsReady = FALSE
  /\ imgOp = NoOps /\ vidOp = NoOps /\ narrOp = NoNarrations
  /\ NoBatches
  /\ last = NoStep

NextSignature ==
  \/ PageMounts \/ BackClicked \/ SceneCountChanges \/ DescriptionChanges
  \/ ScriptResolves \/ ScriptRejects
  \/ ImagePromptsResolve \/ ImagePromptsReject \/ SideCharactersSettled
  \/ NarrationTimerFires \/ NarrationBatchResolves \/ NarrationBatchRejects
  \/ ImageTimerFires \/ ImagePartial \/ ImageBatchResolves \/ ImageBatchRejects
SpecSignature == InitSignature /\ [][NextSignature]_vars

(***************************************************************************)
(* Per-scene narration requests and the way to the final video page        *)
(*                                                                         *)
(* generateSingleNarration, retryNarration and handleSaveScript await one   *)
(* narration request and then store its URL with story.setScenes, on a     *)
(* copy of story.scenes taken from the story object of the render that     *)
(* created the handler.  One narration request per scene is tracked at a   *)
(* time.  The response of the assembly request is not followed.            *)
(***************************************************************************)
\* the narration button of a scene whose narration is idle
GenerateSingleNarration ==
  /\ mounted
  /\ \E i \in 1..Len(scenes) :
        /\ scenes[i].narrationStatus = "idle" /\ narrOp[i].st = "idle"
        /\ scenes' = [scenes EXCEPT ![i].narrationStatus = "generating"]
        /\ narrOp' = [narrOp EXCEPT ![i] =
                        [st |-> "busy", live |-> TRUE, kind |-> "single",
                         text |-> scenes[i].text, snapScenes |-> storyScenes]]
  /\ last' = NoStep
  /\ UNCHANGED <<pollVars, jobVars, docVars, mounted, hasGeneratedRef,
                 imagesGeneratedRef, areVideoPromptsReady, imgOp, vidOp, batchVars>>

\* the retry button of a scene whose narration failed
RetryNarration ==
  /\ mounted
  /\ \E i \in 1..Len(scenes) :
        /\ scenes[i].narrationStatus = "error" /\ narrOp[i].st = "idle"
        /\ scenes' = [scenes EXCEPT ![i].narrationStatus = "generating",
                                    ![i].narrationUrl = 0]
        /\ narrOp' = [narrOp EXCEPT ![i] =
                        [st |-> "busy", live |-> TRUE, kind |-> "retry",
                         text |-> scenes[i].text, snapScenes |-> storyScenes]]
  /\ last' = NoStep
  /\ UNCHANGED <<pollVars, jobVars, docVars, mounted, hasGeneratedRef,
                 imagesGeneratedRef, areVideoPromptsReady, imgOp, vidOp, batchVars>>

\* handleSaveScript up to its await: the edited text, which differs from the
\* scene's text, goes into the local scene and into the story document, and
\* the narration of the scene is requested again
HandleSaveScript ==
  /\ mounted
  /\ \E i \in 1..Len(scenes) :
        LET editedText == 1 - scenes[i].text IN
        /\ narrOp[i].st = "idle"
        /\ scenes' = [scenes EXCEPT ![i].text = editedText,
                                    ![i].narrationStatus = "generating"]
        /\ storyScenes' = SetLineAt(storyScenes, i,
                             [LineAt(storyScenes, i) EXCEPT !.script_text = editedText])
        /\ narrOp' = [narrOp EXCEPT ![i] =
                        [st |-> "busy", live |-> TRUE, kind |-> "save",
                         text |-> editedText, snapScenes |-> storyScenes]]
  /\ last' = NoStep
  /\ UNCHANGED <<pollVars, jobVars, sceneImages, videos, imagePrompts, videoPrompts, visualBlueprint,
                 finalVideoUrl, inputVars, mounted, hasGeneratedRef,
                 imagesGeneratedRef, areVideoPromptsReady, imgOp, vidOp, batchVars>>

\* variant: the stored scenes carry the new narration at every index
StoreNarrationEverywhere(snap, i, op, url) ==
  [k \in 1..Max(Len(snap), i) |-> [LineAt(snap, k) EXCEPT !.narration_url = url]]

\* updatedScenes = [...story.scenes]; updatedScenes[sceneIndex] = {...,
\* narration_url: response.audio_url}; handleSaveScript writes script_text too
StoreNarration(snap, i, op, url) ==
  SetLineAt(snap, i,
            [LineAt(snap, i) EXCEPT
               !.narration_url = url,
               !.script_text = IF op.kind = "save" THEN op.text ELSE @])

\* the narration request of a scene resolves
SingleNarrationDone ==
  \E i \in 1..MaxScenes, url \in Urls :
     /\ narrOp[i].st = "busy"
     /\ scenes' = Local(narrOp[i].live,
                        [scenes EXCEPT ![i].narrationUrl = url,
                                       ![i].narrationStatus = "ready"])
     /\ storyScenes' = StoreNarration(narrOp[i].snapScenes, i, narrOp[i], url)
     /\ finalVideoUrl' = 0
     /\ narrOp' = [narrOp EXCEPT ![i] = IdleNarration]
     /\ last' = Landed(IF narrOp[i].kind = "save" THEN "savedScript" ELSE "narration",
                        i, url, FALSE)
     /\ UNCHANGED <<pollVars, jobVars, sceneImages, videos, imagePrompts, videoPrompts, visualBlueprint,
                    inputVars, mounted, hasGeneratedRef, imagesGeneratedRef,
                    areVideoPromptsReady, imgOp, vidOp, batchVars>>

\* the narration request of a scene is rejected
SingleNarrationFails ==
  \E i \in 1..MaxScenes :
     /\ narrOp[i].st = "busy"
     /\ scenes' = Local(narrOp[i].live, [scenes EXCEPT ![i].narrationStatus = "error"])
     /\ narrOp' = [narrOp EXCEPT ![i] = IdleNarration]
     /\ last' = NoStep
     /\ UNCHANGED <<pollVars, jobVars, docVars, mounted, hasGeneratedRef,
                    imagesGeneratedRef, areVideoPromptsReady, imgOp, vidOp, batchVars>>

\* allVideosReady && allNarrationsReady && story.videos.length > 0 &&
\* story.videos.every(v => v)
canProceedToFinal ==
  /\ Len(scenes) > 0
  /\ \A i \in 1..Len(scenes) : scenes[i].videoUrl # 0 /\ scenes[i].videoStatus = "ready"
  /\ \A i \in 1..Len(scenes) :
        scenes[i].narrationUrl # 0 /\ scenes[i].narrationStatus = "ready"
  /\ Len(videos) > 0 /\ \A i \in 1..Len(videos) : videos[i] # 0

\* the scenes handleGenerateFinalVideo sends to api.generateFinalVideo
FinalRequest ==
  [idx \in 1..Len(storyScenes) |->
     [video_url |-> At(videos, idx), narration_url |-> storyScenes[idx].narration_url]]
Submitted(request) == [NoStep EXCEPT !.kind = "final", !.request = request]

\* the Next button, enabled by canProceedToFinal, leads to FinalVideoPage, whose
\* mount effect submits the assembly when no final video is stored and the
\* story has videos
ProceedToFinal ==
  /\ mounted /\ canProceedToFinal
  /\ mounted' = FALSE
  /\ scenes' = <<>>
  /\ hasGeneratedRef' = FALSE /\ imagesGeneratedRef' = FALSE
  /\ areVideoPromptsReady' = FALSE
  /\ imgOp' = [i \in 1..MaxScenes |-> [imgOp[i] EXCEPT !.live = FALSE]]
  /\ vidOp' = [i \in 1..MaxScenes |-> [vidOp[i] EXCEPT !.live = FALSE]]
  /\ narrOp' = [i \in 1..MaxScenes |-> [narrOp[i] EXCEPT !.live = FALSE]]
  /\ last' = IF finalVideoUrl = 0 /\ Len(videos) > 0
             THEN Submitted(FinalRequest) ELSE NoStep
  /\ UNCHANGED <<pollVars, jobVars, docVars, batchVars>>

(***************************************************************************)
(* SpecNarration: a saved story whose images and videos are all stored is  *)
(* open in SceneGeneration; narrations are generated, retried and edited   *)
(***************************************************************************)
InitNarration ==
  /\ InitPoller /\ hasCallback /\ job = JobPending /\ subTasks = NoSubTasks /\ store = NoStore
  /\ \E narrated \in SUBSET (1..MaxScenes) :
        storyScenes = [i \in 1..MaxScenes |->
                         [SceneLine(i) EXCEPT
                            !.narration_url = IF i \in narrated THEN SavedUrl ELSE 0]]
  /\ sceneImages = [i \in 1..MaxScenes |-> SavedUrl]
  /\ videos = [i \in 1..MaxScenes |-> SavedUrl]
  /\ imagePrompts = TRUE /\ videoPrompts = MaxScenes /\ visualBlueprint = 0
  /\ finalVideoUrl = 0
  /\ sceneCount = MaxScenes
  /\ characterDescription = "first" /\ storySignature = CurrentSignature
  /\ mounted = TRUE
  /\ scenes = MappedScenes
  /\ hasGeneratedRef = TRUE /\ imagesGeneratedRef = TRUE
  /\ areVideoPromptsReady = TRUE
  /\ imgOp = NoOps /\ vidOp = NoOps /\ narrOp = NoNarrations
  /\ NoBatches
  /\ last = NoStep

NextNarration ==
  \/ GenerateSingleNarration \/ RetryNarration \/ HandleSaveScript
  \/ SingleNarrationDone \/ SingleNarrationFails
  \/ ProceedToFinal \/ PageMounts
SpecNarration == InitNarration /\ [][NextNarration]_vars

(***************************************************************************)
(* Specification SpecPoll: the poller against an arbitrary status endpoint *)
(***************************************************************************)
FetchReturns == \E resp \in JobStatusResponse : Poll(resp) /\ UNCHANGED <<jobVars, storyVars>>
FetchFails == \E err \in TransportErrors : PollThrow(err) /\ UNCHANGED <<jobVars, storyVars>>
Tick == TimerFires /\ UNCHANGED <<jobVars, storyVars>>
Unmount == Abandon /\ UNCHANGED <<jobVars, storyVars>>

InitPoll == InitPoller /\ job = NoResponse /\ subTasks = NoSubTasks /\ store = NoStore /\ NoStory
NextPoll == FetchReturns \/ FetchFails \/ Tick \/ Unmount
SpecPoll == InitPoll /\ [][NextPoll]_vars

(***************************************************************************)
(* The job record as the executor writes it: PENDING -> STARTED ->         *)
(* PROGRESS* -> SUCCESS | FAILURE, one sub-task at a time                  *)
(***************************************************************************)
JobAdvance ==
  /\ \/ /\ job.state = "PENDING"
        /\ job' = [job EXCEPT !.state = "STARTED", !.status = "working"]
     \/ /\ job.state \in {"STARTED", "PROGRESS"}
        /\ job.current < job.total
        /\ job' = [job EXCEPT !.state = "PROGRESS", !.hasProgress = TRUE,
                              !.current = @ + 1, !.partial_results = "some"]
     \/ /\ job.state \in {"STARTED", "PROGRESS"}
        /\ job.current = job.total
        /\ \E r \in {"r1", "r2"} : job' = [job EXCEPT !.state = "SUCCESS", !.result = r]
     \/ /\ job.state \in {"STARTED", "PROGRESS"}
        /\ job' = [job EXCEPT !.state = "FAILURE", !.error = "boom"]
  /\ UNCHANGED <<subTasks, pollVars, store, storyVars>>

(***************************************************************************)
(* Specification SpecJob: the poller against a job that runs its lifecycle *)
(***************************************************************************)
FetchJob == Poll(job) /\ UNCHANGED <<jobVars, storyVars>>

InitJob == InitPoller /\ job = JobPending /\ subTasks = NoSubTasks /\ store = NoStore /\ NoStory
NextJob == JobAdvance \/ FetchJob \/ FetchFails \/ Tick
SpecJob == InitJob /\ [][NextJob]_vars
\* timers fire and every fetch completes, one way or the other
SpecJobFair == SpecJob /\ WF_vars(Tick) /\ WF_vars(FetchJob \/ FetchFails)

(***************************************************************************)
(* Submission: api.generateSceneImages posts the request, and starts the   *)
(* poller only on an ok response that carries the job id                   *)
(***************************************************************************)
\* how the POST ends: the job was enqueued and its id returned, the server
\* could not enqueue and answered with an error status, or fetch itself threw
SubmitOutcomes == {"accepted", "refused", "unreachable"}

\* no job record exists; the status endpoint reports an unknown id as PENDING
NoJob == [NoResponse EXCEPT !.status = "unknown"]

\* the record the submission endpoint leaves behind
Enqueue(outcome) == IF outcome = "accepted" THEN JobPending ELSE NoJob

\* variant: the ok flag of the response is not tested
SubmitBranchUnchecked(ok) == "poll"

\* ok: response.ok of the POST
SubmitBranch(ok) == IF ok THEN "poll" ELSE "throw"

SubmitError(outcome) ==
  IF outcome = "unreachable" THEN "NetworkError" ELSE "Failed to start scene image generation"

GenerateSceneImagesSubmit ==
  /\ pc = "submitting"
  /\ \E outcome \in SubmitOutcomes :
       LET branch == IF outcome = "unreachable" THEN "throw"
                     ELSE SubmitBranch(outcome = "accepted")
       IN /\ job' = Enqueue(outcome)
          /\ IF branch = "poll"
             THEN /\ pc' = "fetching"
                  /\ fetchCount' = 1
                  /\ NoSettle
             ELSE /\ pc' = "stopped"
                  /\ Settle("Rejected", SubmitError(outcome))
                  /\ UNCHANGED fetchCount
  /\ UNCHANGED <<cbCount, lastCb, cbThisTick, lastKind, lastResp, lastErr, delay,
                 hasCallback, abandoned, subTasks, store, storyVars>>

\* state when api.generateSceneImages has been called and its POST is in flight
InitSubmit ==
  /\ pc = "submitting"
  /\ promise = "Polling"
  /\ settleValue = "none"
  /\ settleCount = 0
  /\ fetchCount = 0
  /\ cbCount = 0
  /\ lastCb = NoCallback
  /\ cbThisTick = FALSE
  /\ lastKind = "none"
  /\ lastResp = NoResponse
  /\ lastErr = "none"
  /\ delay = 0
  /\ hasCallback \in BOOLEAN
  /\ abandoned = FALSE
  /\ job = NoJob
  /\ subTasks = NoSubTasks /\ store = NoStore
  /\ NoStory
NextSubmit == GenerateSceneImagesSubmit \/ JobAdvance \/ FetchJob \/ FetchFails \/ Tick
SpecSubmit == InitSubmit /\ [][NextSubmit]_vars

(***************************************************************************)
(* A fan-out job: the Task Executor dispatches FanOut sub-tasks, which     *)
(* complete in any order; after each one it writes PROGRESS with the       *)
(* counters and a snapshot of every result completed so far                *)
(***************************************************************************)
PopulatedIndices(results) == {i \in 1..Len(results) : results[i] # 0}

\* the result of sub-task i
SubResult(i) == i

EmptyResults == [i \in 1..FanOut |-> 0]

FanOutPending ==
  [JobPending EXCEPT !.total = FanOut, !.partial_results = EmptyResults]

\* variant: a record that reached a terminal state is still written
ExecutorRunsAfterEnd(state) == state # "PENDING"

\* the states in which the executor is working on the job
ExecutorRuns(state) == state \in {"STARTED", "PROGRESS"}

\* variant: the snapshot carries the latest result only
SnapshotLatestOnly(results, i) == [k \in 1..Len(results) |-> IF k = i THEN results[k] ELSE 0]

\* the partial_results written after sub-task i completed
Snapshot(results, i) == results

\* variant: current is the position of the furthest completed sub-task
HighestCompleted(results) ==
  IF PopulatedIndices(results) = {} THEN 0
  ELSE CHOOSE i \in PopulatedIndices(results) : \A j \in PopulatedIndices(results) : j <= i

\* the current counter written with a snapshot
CompletedCount(results) == Cardinality(PopulatedIndices(results))

ExecutorStarts ==
  /\ job.state = "PENDING"
  /\ job' = [job EXCEPT !.state = "STARTED", !.status = "working"]
  /\ UNCHANGED <<subTasks, pollVars, store, storyVars>>

SubTaskCompletes(i) ==
  /\ ExecutorRuns(job.state)
  /\ subTasks[i] = 0
  /\ subTasks' = [subTasks EXCEPT ![i] = SubResult(i)]
  /\ job' = [job EXCEPT !.state = "PROGRESS", !.hasProgress = TRUE,
                        !.current = CompletedCount(subTasks'),
                        !.partial_results = Snapshot(subTasks', i)]
  /\ UNCHANGED <<pollVars, store, storyVars>>

\* every sub-task has completed: the final payload is written
ExecutorSucceeds ==
  /\ ExecutorRuns(job.state)
  /\ PopulatedIndices(subTasks) = 1..FanOut
  /\ \E r \in {"r1", "r2"} : job' = [job EXCEPT !.state = "SUCCESS", !.result = r]
  /\ UNCHANGED <<subTasks, pollVars, store, storyVars>>

\* variant: the failure write replaces the progress written so far
FailedDropsProgress(record) ==
  [record EXCEPT !.state = "FAILURE", !.error = "boom", !.hasProgress = FALSE,
                 !.current = 0, !.partial_results = EmptyResults]

\* the record written when a sub-task failed
Failed(record) == [record EXCEPT !.state = "FAILURE", !.error = "boom"]

\* a sub-task fails: the job fails as a whole, what was written stays
ExecutorFails ==
  /\ ExecutorRuns(job.state)
  /\ PopulatedIndices(subTasks) # 1..FanOut
  /\ job' = Failed(job)
  /\ UNCHANGED <<subTasks, pollVars, store, storyVars>>

InitFanOut == InitPoller /\ job = FanOutPending /\ subTasks = EmptyResults /\ store = NoStore /\ NoStory
NextFanOut ==
  \/ ExecutorStarts \/ (\E i \in 1..FanOut : SubTaskCompletes(i))
  \/ ExecutorSucceeds \/ ExecutorFails
  \/ FetchJob \/ FetchFails \/ Tick
SpecFanOut == InitFanOut /\ [][NextFanOut]_vars

(***************************************************************************)
(* Client Poller properties                                                *)
(***************************************************************************)

\* C1: the Polling state is left at most once; a settled poller fetches no
\* status, schedules no tick and invokes no progress callback any more.
C1_SettlesAtMostOnce ==
  [][ /\ settleCount' <= 1
      /\ promise # "Polling" =>
            /\ promise' = promise /\ settleValue' = settleValue
            /\ settleCount' = settleCount
            /\ fetchCount' = fetchCount /\ cbCount' = cbCount
            /\ pc' = "stopped" /\ delay' = 0 ]_vars

C1_Witness == promise = "Resolved" /\ settleCount = 1 /\ fetchCount >= 2 /\ cbCount >= 1

\* C2: the poller resolves only on a tick whose response is SUCCESS, with that
\* response's result, and rejects with the job's error only on a FAILURE tick.
C2_OutcomeMatchesJob ==
  /\ promise = "Resolved" =>
        lastKind = "ok" /\ lastResp.state = "SUCCESS" /\ settleValue = lastResp.result
  /\ (promise = "Rejected" /\ lastKind = "ok") =>
        /\ lastResp.state = "FAILURE"
        /\ lastResp.error # "" => settleValue = lastResp.error
  /\ lastKind = "ok" =>
        /\ lastResp.state = "SUCCESS" => promise = "Resolved"
        /\ lastResp.state = "FAILURE" => promise = "Rejected"

C2_Witness ==
  promise = "Rejected" /\ lastKind = "ok" /\ settleValue = "boom" /\ fetchCount >= 2

\* C3: the callback is invoked on a tick iff the state is STARTED or PROGRESS,
\* progress data is present and a callback was supplied, with the fields of that
\* response; on PENDING or an unknown state the next tick is scheduled silently.
C3_CallbackIffRunning ==
  lastKind = "ok" =>
    /\ cbThisTick <=> /\ lastResp.state \in {"STARTED", "PROGRESS"}
                      /\ lastResp.hasProgress
                      /\ hasCallback
    /\ cbThisTick =>
          /\ lastCb.current = lastResp.current
          /\ lastCb.total = lastResp.total
          /\ lastCb.status = lastResp.status
          /\ lastCb.partialResults = lastResp.partial_results
    /\ lastResp.state \notin {"STARTED", "PROGRESS", "SUCCESS", "FAILURE"} =>
          /\ ~cbThisTick
          /\ promise = "Polling"
          /\ pc \in {"waiting", "fetching"}

C3_Witness ==
  /\ cbThisTick /\ lastResp.state = "STARTED" /\ lastCb.partialResults = "some"
  /\ lastCb.current = 1 /\ pc = "waiting"

\* C4: once the owner has abandoned the poller, the progress callback is never
\* invoked, no further tick runs and no outcome is delivered.
C4_NothingAfterAbandon ==
  [][ abandoned =>
        /\ cbCount' = cbCount
        /\ fetchCount' = fetchCount
        /\ promise' = promise ]_vars

\* C5: a status fetch that fails in transport rejects the poller with that
\* error, and the poller neither retries nor polls again.
C5_TransportFailureRejects ==
  lastKind = "throw" =>
    /\ promise = "Rejected" /\ settleValue = lastErr /\ settleCount = 1
    /\ pc = "stopped" /\ delay = 0

C5_Witness == lastKind = "throw" /\ settleValue = "NetworkError" /\ fetchCount >= 2

\* C6: once the job is SUCCESS or FAILURE, the poller eventually leaves
\* Polling with exactly one outcome.
C6_TerminalJobSettlesPoller ==
  (job.state \in TerminalStates) ~> (promise # "Polling" /\ settleCount = 1)

C6_Witness ==
  job.state = "SUCCESS" /\ promise = "Resolved" /\ settleValue = job.result /\ fetchCount >= 2

\* C7: while every fetch succeeds with a non-terminal state the poller stays in
\* Polling and the next tick is scheduled after the same fixed interval,
\* however many polls have been made.
C7_NeverGivesUp ==
  (lastKind = "ok" /\ lastResp.state \notin TerminalStates) =>
    /\ promise = "Polling"
    /\ \/ pc = "waiting" /\ delay = DefaultPollInterval
       \/ pc = "fetching"

C7_Witness ==
  /\ lastKind = "ok" /\ lastResp.state = "PENDING" /\ fetchCount = MaxCount
  /\ pc = "waiting" /\ promise = "Polling"

(***************************************************************************)
(* Client State Reconciler properties                                      *)
(***************************************************************************)

\* C8: when scene i's image is regenerated while scene j's video generation is in
\* flight, both results land in whichever order they arrive: the step that writes
\* one scene's result stores it at that scene's index and leaves every other
\* scene's image and video as they were, so the later write neither reverts the
\* earlier one nor is lost.
C8_BothResultsLand ==
  [][ LET i == last'.scene IN
      /\ last'.kind = "image" =>
            /\ At(sceneImages', i) = last'.url
            /\ \A j \in 1..MaxScenes \ {i} :
                  At(sceneImages', j) = At(sceneImages, j) /\ At(videos', j) = At(videos, j)
      /\ last'.kind = "video" =>
            /\ At(videos', i) = last'.url
            /\ sceneImages' = sceneImages
            /\ \A j \in 1..MaxScenes \ {i} : At(videos', j) = At(videos, j) ]_vars

\* the video of scene j landed after the image of scene i was regenerated under it
C8_Witness ==
  /\ last.kind = "video" /\ last.second /\ last.url \in Urls
  /\ At(videos, last.scene) = last.url
  /\ \E i \in 1..MaxScenes :
        /\ i # last.scene
        /\ scenes[i].imageStatus = "ready" /\ scenes[i].imageUrl \in Urls
        /\ At(sceneImages, i) = scenes[i].imageUrl

\* C9: a partial-results merge changes only the document indices that are present
\* and non-empty in the payload; every other index of the merged array keeps the
\* value it held and the sibling array is untouched, so an empty payload or a
\* repeated payload leaves the document as it was.
C9_MergeKeepsOtherIndices ==
  [][ /\ last'.kind = "images" =>
            /\ \A i \in 1..Max(Len(sceneImages), Len(sceneImages')) :
                  i \notin last'.populated => At(sceneImages', i) = At(sceneImages, i)
            /\ videos' = videos /\ storyScenes' = storyScenes
      /\ last'.kind = "videos" =>
            /\ \A i \in 1..Max(Len(videos), Len(videos')) :
                  i \notin last'.populated => At(videos', i) = At(videos, i)
            /\ sceneImages' = sceneImages /\ storyScenes' = storyScenes ]_vars

\* C10: after every reconciliation step (clearing on a scene-count change, the
\* resume fix, the sizing at script arrival, a partial or final batch merge) the
\* scenes, the image URLs and the video URLs of the document have one length.
C10_ArraysAligned ==
  [][ last'.kind \in {"clear", "resume", "resumeResized", "script", "images", "videos",
                      "imagesFinal", "videosFinal"} =>
        /\ Len(storyScenes') = Len(sceneImages')
        /\ Len(sceneImages') = Len(videos') ]_vars

C12_NoInvalidationWithoutChange ==
  [][ ~mounted /\ mounted' /\ storySignature \in {NoSignature, CurrentSignature} =>
        /\ last'.kind # "clear"
        /\ storySignature' = CurrentSignature
        /\ storyScenes' = storyScenes
        /\ imagePrompts' = imagePrompts /\ videoPrompts' = videoPrompts
        /\ finalVideoUrl' = finalVideoUrl
        /\ \A i \in 1..MaxScenes :
              /\ At(sceneImages, i) # 0 => At(sceneImages', i) = At(sceneImages, i)
              /\ At(videos, i) # 0 => At(videos', i) = At(videos, i) ]_vars

\* a story with a stored video has been resumed under an unchanged signature
C12_Witness ==
  /\ mounted /\ last.kind = "resume"
  /\ storySignature = CurrentSignature
  /\ \E i \in 1..Len(videos) : videos[i] # 0

\* C13: a change of the inputs away from the recorded signature is invalidated
\* exactly once.  It is not skipped: a change of the scene count clears the
\* scenes at once, and SceneGeneration coming up with a recorded signature that
\* differs from the inputs clears the scenes and records the new signature.  It
\* is not repeated: a clearing happens only in a step that changes the scene
\* count or finds a recorded signature different from the inputs, and it leaves
\* the recorded signature empty or equal to the inputs.
C13_InvalidatesOncePerChange ==
  [][ /\ ~mounted /\ mounted' /\ SignatureChanged(storySignature, CurrentSignature) =>
            /\ last'.kind = "clear"
            /\ storyScenes' = <<>> /\ ~imagePrompts' /\ videoPrompts' = 0
            /\ finalVideoUrl' = 0
            /\ storySignature' = CurrentSignature
      /\ sceneCount' # sceneCount =>
            /\ last'.kind = "clear"
            /\ storyScenes' = <<>> /\ ~imagePrompts' /\ videoPrompts' = 0
            /\ finalVideoUrl' = 0
      /\ last'.kind = "clear" =>
            /\ \/ sceneCount' # sceneCount
               \/ SignatureChanged(storySignature, CurrentSignature)
            /\ storySignature' \in {NoSignature, CurrentSignature'} ]_vars

\* the description was edited after a story with a stored video had been
\* generated, and the next visit of SceneGeneration cleared the story
C13_Witness ==
  /\ mounted /\ last.kind = "clear" /\ last.populated # {}
  /\ characterDescription = "second"
  /\ storySignature = CurrentSignature /\ storyScenes = <<>>

\* C14: the Next button that leads to the assembly of the final video is enabled
\* only when every scene of the story document has a video and a narration, and
\* every scene of a submitted assembly request has both.
C14_FinalOnlyWhenComplete ==
  [][ /\ mounted' /\ canProceedToFinal' =>
            \A i \in 1..Len(storyScenes') :
               At(videos', i) # 0 /\ storyScenes'[i].narration_url # 0
      /\ last'.kind = "final" =>
            \A i \in 1..Len(last'.request) :
               last'.request[i].video_url # 0 /\ last'.request[i].narration_url # 0
    ]_vars

\* C15: when the narration regenerated for a saved script edit of scene k is
\* stored, scene k holds the new narration URL and the edited text, and every
\* other scene has the narration URL it had when the edit was saved, in the
\* story document as well as in the component's list, whose other entries the
\* storing step does not touch.
C15_SaveRegeneratesOnlyThatScene ==
  [][ \A k \in 1..MaxScenes :
         last'.kind = "savedScript" /\ last'.scene = k =>
            /\ LineAt(storyScenes', k).narration_url = last'.url
            /\ LineAt(storyScenes', k).script_text = narrOp[k].text
            /\ \A j \in (1..Len(storyScenes')) \ {k} :
                  storyScenes'[j].narration_url
                     = LineAt(narrOp[k].snapScenes, j).narration_url
            /\ \A j \in (1..Len(scenes')) \ {k} :
                  scenes'[j].narrationUrl = scenes[j].narrationUrl ]_vars

\* the narration of an edited scene was stored next to a scene with a narration
C15_Witness ==
  /\ last.kind = "savedScript" /\ mounted
  /\ LineAt(storyScenes, last.scene).narration_url = last.url
  /\ \E j \in (1..Len(storyScenes)) \ {last.scene} :
        storyScenes[j].narration_url # 0 /\ storyScenes[j].narration_url # last.url

\* C16: when a regenerated image of scene k is stored, the video of scene k is
\* cleared in the story document and in the component's list, and the video
\* every other scene holds in either of them stays as it was.
C16_NewImageClearsOwnVideoOnly ==
  [][ LET k == last'.scene IN
      last'.kind = "image" =>
        /\ At(videos', k) = 0
        /\ \A j \in 1..MaxScenes \ {k} : At(videos', j) = At(videos, j)
        /\ mounted =>
              \A j \in 1..Len(scenes') :
                 IF j = k /\ imgOp[k].live
                 THEN scenes'[j].videoUrl = 0 /\ scenes'[j].videoStatus = "idle"
                 ELSE scenes'[j].videoUrl = scenes[j].videoUrl ]_vars

\* the image of a scene that had a video was regenerated while another scene
\* had a video as well, which it still has
C16_Witness ==
  /\ last.kind = "image" /\ last.scene \in last.populated
  /\ At(videos, last.scene) = 0
  /\ \E j \in last.populated \ {last.scene} : At(videos, j) # 0

\* C17: a submission that fails at enqueue time (the POST is refused or never
\* answered, and no job record is created) rejects the caller's promise in that
\* very step, and as long as no job exists no status request is issued and no
\* tick is scheduled.
C17_FailedSubmissionRejectsWithoutPolling ==
  [][ /\ (pc = "submitting" /\ pc' # "submitting" /\ job' = NoJob)
         => promise' = "Rejected" /\ settleCount' = 1
      /\ (pc' # "submitting" /\ job' = NoJob)
         => fetchCount' = 0 /\ pc' = "stopped" /\ delay' = 0 /\ lastKind' = "none"
    ]_vars
C17_Witness ==
  /\ job = NoJob /\ pc = "stopped" /\ promise = "Rejected"
  /\ settleValue = "Failed to start scene image generation" /\ fetchCount = 0

(***************************************************************************)
(* Job lifecycle properties                                                *)
(***************************************************************************)
StateRank(state) ==
  CASE state = "PENDING" -> 0
    [] state = "STARTED" -> 1
    [] state = "PROGRESS" -> 2
    [] OTHER -> 3

\* C18: a job is created PENDING and its state only moves along
\* PENDING -> STARTED -> PROGRESS* -> SUCCESS | FAILURE: never backwards, never
\* from PENDING past STARTED, and a terminal record is never written again.
C18_StateOrder ==
  /\ job.state = "PENDING"
  /\ [][ /\ job.state \in JobStates /\ job'.state \in JobStates
         /\ job.state \in TerminalStates => job' = job
         /\ StateRank(job'.state) >= StateRank(job.state)
         /\ job.state = "PENDING" => job'.state \in {"PENDING", "STARTED"}
         /\ (job'.state = job.state /\ job' # job) => job.state = "PROGRESS"
       ]_vars
C18_Witness ==
  /\ job.state = "FAILURE" /\ job.current = 1 /\ lastKind = "ok" /\ lastResp.state = "PROGRESS"

\* C19: while the job is not terminal, neither the job record nor what the
\* poller receives and hands to the progress callback ever goes back: current
\* never decreases and an index populated in partial_results stays populated.
C19_ProgressMonotone ==
  [][ /\ job'.state \notin TerminalStates
         => /\ job'.current >= job.current
            /\ PopulatedIndices(job.partial_results)
                  \subseteq PopulatedIndices(job'.partial_results)
      /\ (lastKind = "ok" /\ lastKind' = "ok" /\ lastResp'.state \notin TerminalStates)
         => /\ lastResp'.current >= lastResp.current
            /\ PopulatedIndices(lastResp.partial_results)
                  \subseteq PopulatedIndices(lastResp'.partial_results)
      /\ (cbCount > 0 /\ cbThisTick')
         => /\ lastCb'.current >= lastCb.current
            /\ PopulatedIndices(lastCb.partialResults)
                  \subseteq PopulatedIndices(lastCb'.partialResults)
    ]_vars
C19_Witness ==
  /\ cbCount = 2 /\ lastCb.current = 2 /\ job.state = "PROGRESS"
  /\ PopulatedIndices(lastCb.partialResults) = {2, 3}

\* the snapshot a report carries agrees with the sub-tasks completed so far
SnapshotAgrees(results, current, total) ==
  /\ Len(results) = FanOut
  /\ \A i \in 1..FanOut :
       results[i] = IF subTasks[i] # 0 THEN SubResult(i) ELSE 0
  /\ current = Cardinality({i \in 1..FanOut : subTasks[i] # 0})
  /\ total = FanOut

\* C20: after each sub-task completes, also out of index order, the snapshot
\* written with PROGRESS, and every report a poll made at that moment returns
\* or hands to the progress callback, holds each completed sub-task's result at
\* its own index and nothing elsewhere, with current the number completed.
C20_SnapshotHoldsCompleted ==
  [][ /\ job'.state = "PROGRESS"
         => SnapshotAgrees(job.partial_results, job.current, job.total)'
      /\ (pc = "fetching" /\ pc' # "fetching" /\ lastKind' = "ok" /\ lastResp'.state = "PROGRESS")
         => SnapshotAgrees(lastResp.partial_results, lastResp.current, lastResp.total)'
      /\ (pc = "fetching" /\ pc' # "fetching" /\ cbThisTick')
         => SnapshotAgrees(lastCb.partialResults, lastCb.current, lastCb.total)'
    ]_vars
C20_Witness ==
  /\ lastKind = "ok" /\ lastResp.state = "PROGRESS"
  /\ lastResp.current = 2 /\ lastResp.total = FanOut
  /\ lastResp.partial_results[1] = SubResult(1)
  /\ lastResp.partial_results[2] = 0
  /\ lastResp.partial_results[3] = SubResult(3)
  /\ cbThisTick /\ lastCb.current = 2 /\ PopulatedIndices(lastCb.partialResults) = {1, 3}

\* C21: when a sub-task of a fan-out job fails, the record becomes FAILURE with
\* a non-empty error and keeps the entries of the sub-tasks completed before;
\* it never becomes SUCCESS afterwards, and a poller that receives it rejects
\* with that error and never resolves.
C21_FailedJobKeepsPartialResults ==
  [][ /\ (job.state # "FAILURE" /\ job'.state = "FAILURE")
         => /\ job'.error # ""
            /\ job'.partial_results = subTasks
            /\ job'.current = Cardinality(PopulatedIndices(subTasks))
            /\ subTasks' = subTasks
      /\ job.state = "FAILURE" => job'.state = "FAILURE"
      /\ (pc = "fetching" /\ lastKind' = "ok" /\ lastResp'.state = "FAILURE")
         => /\ promise' = "Rejected" /\ settleValue' = lastResp'.error
            /\ lastResp'.partial_results = subTasks
      /\ (promise = "Rejected" /\ lastResp.state = "FAILURE") => promise' = "Rejected"
    ]_vars
C21_Witness ==
  /\ job.state = "FAILURE" /\ job.current = FanOut - 1
  /\ lastKind = "ok" /\ lastResp = job /\ promise = "Rejected" /\ settleValue = "boom"
  /\ PopulatedIndices(lastResp.partial_results) = (1..FanOut) \ {2}

\* C22: the write made when the narration of scene k arrives is applied to the
\* story document's scenes as they are at that moment: every other scene keeps
\* the line it holds, whatever was stored after the request was sent.
C22_WritesApplyToLatest ==
  [][ \A k \in 1..MaxScenes :
         ( /\ narrOp[k].st = "busy" /\ narrOp'[k].st = "idle"
           /\ last'.kind \in {"narration", "savedScript"} /\ last'.scene = k )
         => /\ Len(storyScenes') = Len(storyScenes)
            /\ \A j \in (1..Len(storyScenes)) \ {k} : storyScenes'[j] = storyScenes[j]
    ]_vars

\* C23: once the generated content has been invalidated and until the page
\* comes up again and submits jobs for the new inputs, the story document stays
\* empty: no result of a job submitted before the invalidation is written.
C23_NoStaleWriteAfterInvalidation ==
  (~mounted /\ storySignature = NoSignature)
     => /\ storyScenes = <<>> /\ sceneImages = <<>> /\ videos = <<>>
        /\ ~imagePrompts /\ videoPrompts = 0 /\ finalVideoUrl = 0

\* the story document holds no generated content: no scene, no prompt, no
\* image or video URL at any index, no final video
DocumentCleared ==
  /\ storyScenes = <<>>
  /\ PopulatedIndices(sceneImages) = {} /\ PopulatedIndices(videos) = {}
  /\ ~imagePrompts /\ videoPrompts = 0 /\ finalVideoUrl = 0

\* C24: the update in which an invalidation fires leaves the scenes (with their
\* narrations), the prompts, the images, the videos and the final video of the
\* story document all empty, and when it is the signature check of the page
\* that fired, the recorded signature is the signature of the new inputs.
C24_ClearedTogether ==
  [][ /\ last'.kind = "clear" /\ last' # last => DocumentCleared'
      /\ (~mounted /\ mounted' /\ SignatureChanged(storySignature, CurrentSignature))
         => DocumentCleared' /\ storySignature' = CurrentSignature'
    ]_vars

C26_ImagesAfterSideCharactersAndPrompts ==
  [][ /\ (imgBatch.st # "busy" /\ imgBatch'.st = "busy")
         => /\ script.side # "busy" /\ script.prompts = "done"
            /\ imagePrompts
      /\ (script.side = "busy" \/ script.prompts = "busy") => imgBatch'.st = imgBatch.st
    ]_vars
\* the batch runs after side characters and image prompts both completed
C26_Witness ==
  /\ imgBatch.st = "busy" /\ script.side = "done" /\ script.prompts = "done"

\* C27: the step in which the script arrives sets the narration timer and
\* starts the image branch (image prompts, side characters) together; from
\* then on the narration batch can start whatever the image branch is doing,
\* and every step of the image branch can happen whatever the narration
\* batch is doing.
C27_NarrationAndImagesIndependent ==
  /\ [][ (script.st = "script" /\ script'.st = "imagePrompts")
          => script'.narr = "timer" /\ script'.prompts = "busy" ]_vars
  /\ [](script.narr = "timer" => ENABLED NarrationTimerFires)
  /\ [](script.prompts = "busy" => ENABLED ImagePromptsResolve /\ ENABLED ImagePromptsReject)
  /\ [](script.side = "busy" => ENABLED SideCharactersSettled)
  /\ [](script.timer => ENABLED ImageTimerFires)
\* the narration batch and the image-prompt request run at the same time
C27_Witness ==
  /\ script.narr = "busy" /\ script.prompts = "busy"

LacksPrompt(i) == IsVideoTarget(scenes[i]) /\ ~scenes[i].videoPrompt

\* C29: a batch video job starts only when every target scene has its own
\* image and its video prompt; while the button shows and some target scene
\* lacks its video prompt, the click submits nothing and changes no state.
C29_BatchNeedsEveryPrompt ==
  /\ [][ (vidBatch.st = "idle" /\ vidBatch'.st = "busy")
          => /\ Len(vidBatch'.targets) > 0
             /\ \A k \in 1..Len(vidBatch'.targets) :
                   /\ scenes[vidBatch'.targets[k]].imageUrl # 0
                   /\ scenes[vidBatch'.targets[k]].videoPrompt
                   /\ scenes[vidBatch'.targets[k]].videoStatus = "idle"
             /\ \A i \in 1..Len(scenes) :
                   scenes'[i].videoStatus # scenes[i].videoStatus
                   => FindIndex(vidBatch'.targets, i) # 0 ]_vars
  /\ []((\E i \in 1..Len(scenes) : LacksPrompt(i)) => ~ENABLED ClickGenerateAllVideos)
\* the button shows, scene 1 has image and prompt, the last scene has an image
\* and no prompt: the click does nothing
C29_Witness ==
  /\ mounted /\ allImagesReady /\ areVideoPromptsReady /\ vidBatch.st = "idle"
  /\ Len(scenes) = MaxScenes
  /\ IsVideoTarget(scenes[1]) /\ scenes[1].videoPrompt
  /\ LacksPrompt(MaxScenes)

\* C30: a single video request is submitted only for a scene that has its own
\* image and its own video prompt, and a scene that has both, an idle video
\* and no request of its own in flight can be animated whatever the state of
\* the other scenes.
C30_SingleVideoNeedsOwnInputs ==
  /\ [][ \A i \in 1..MaxScenes :
            (vidOp[i].st = "idle" /\ vidOp'[i].st = "busy")
            => scenes[i].imageUrl # 0 /\ scenes[i].videoPrompt ]_vars
  /\ [](\A i \in 1..Len(scenes) :
          ( /\ mounted /\ vidOp[i].st = "idle"
            /\ scenes[i].videoStatus = "idle" /\ scenes[i].imageStatus = "ready"
            /\ scenes[i].imageUrl # 0 /\ scenes[i].videoPrompt )
          => ENABLED AnimateScene(i))

(***************************************************************************)
(* Completion order of concurrent stages                                   *)
(***************************************************************************)
\* C31: the narration batch writes the scene list of the script with its
\* narration URLs and no other field of the document, whatever the image
\* branch has written so far; the image prompts, the scene images and the
\* video prompts are written without touching the scene list; so the document
\* after both is the same in either order of completion.
C31_CompletionOrderIrrelevant ==
  [][ /\ last'.kind = "narrations"
         => /\ Len(storyScenes') = script.count
            /\ \A i \in 1..script.count :
                  /\ storyScenes'[i].script_text = SceneLine(i).script_text
                  /\ storyScenes'[i].narration_url # 0 <=> i \in last'.populated
            /\ UNCHANGED <<sceneImages, videos, imagePrompts, videoPrompts,
                           finalVideoUrl>>
      /\ ( /\ last'.kind # "script"
           /\ \/ sceneImages' # sceneImages \/ imagePrompts' # imagePrompts
              \/ videoPrompts' # videoPrompts )
         => storyScenes' = storyScenes
      /\ (imagePrompts' # imagePrompts \/ videoPrompts' # videoPrompts)
         => sceneImages' = sceneImages
      /\ last'.kind \in {"images", "imagesFinal"}
         => imagePrompts' = imagePrompts /\ videoPrompts' = videoPrompts
    ]_vars
\* the narration batch completes after the image batch and the video prompts
C31_Witness ==
  /\ last.kind = "narrations" /\ 1 \in last.populated
  /\ Len(storyScenes) = MaxScenes
  /\ PopulatedIndices(sceneImages) = 1..MaxScenes
  /\ imagePrompts /\ videoPrompts = MaxScenes

(***************************************************************************)
(* Failure of a batch job                                                  *)
(***************************************************************************)
\* C32: when a batch request fails on a mounted page, every scene the batch
\* targeted shows the error status (which offers the retry), also the scenes
\* whose partial result had arrived before the failure.
C32_FailedBatchFailsEveryTarget ==
  [][ /\ ( /\ imgBatch.st = "busy" /\ imgBatch'.st = "idle"
           /\ last'.kind # "imagesFinal" /\ imgBatch.live /\ mounted )
         => \A i \in 1..Len(scenes') : scenes'[i].imageStatus = "error"
      /\ ( /\ vidBatch.st = "busy" /\ vidBatch'.st = "idle"
           /\ last'.kind # "videosFinal" /\ vidBatch.live /\ mounted )
         => \A k \in 1..Len(vidBatch.targets) :
               vidBatch.targets[k] <= Len(scenes')
               => scenes'[vidBatch.targets[k]].videoStatus = "error"
    ]_vars

(***************************************************************************)
(* Narration of a regenerated story                                        *)
(***************************************************************************)
\* C33: every script that arrives, also the one generated after the content
\* was invalidated, arms the narration batch, which nothing but its timer
\* holds back; when the batch settles, every scene of that script has its
\* narration in the document or shows the error status on the page.
C33_RegeneratedScenesNarratedOrMarked ==
  /\ [][ (script.st = "script" /\ script'.st = "imagePrompts")
          => script'.narr = "timer" ]_vars
  /\ [](script.narr = "timer" => ENABLED NarrationTimerFires)
  /\ [][ (script.narr = "busy" /\ script'.narr # "busy")
          => \A i \in 1..script.count :
                \/ i <= Len(storyScenes') /\ storyScenes'[i].narration_url # 0
                \/ i <= Len(scenes') /\ scenes'[i].narrationStatus = "error" ]_vars

(***************************************************************************)
(* StoryProvider.saveToDatabase and the debounced auto-save effect         *)
(*                                                                         *)
(* store.projectId is the projectId state (0 for null), store.timer the    *)
(* pending 2 s timeout, store.version counts the changes of the saved      *)
(* state, store.flights holds the calls of saveToDatabase that have not    *)
(* returned, store.projects counts the projects created in the store and   *)
(* store.saved is the version the latest project write carried.            *)
(***************************************************************************)
RemoveAt(seq, k) == [i \in 1..(Len(seq) - 1) |-> IF i < k THEN seq[i] ELSE seq[i + 1]]

\* a state the effect depends on changes: the pending timeout is cleared and a
\* new one is set
DocumentChanges ==
  /\ store.version < MaxEdits
  /\ store' = [store EXCEPT !.version = @ + 1, !.timer = TRUE]

\* if (projectId) api.updateProject(projectId, ...) else api.createProject(...)
ProjectRequest(projectId) == IF projectId # 0 THEN "update" ELSE "create"

\* the timeout fires: saveToDatabase() of the latest render starts and awaits its
\* project request; withScenes: scenes.length > 0 in that render
StartSave(withScenes) ==
  /\ store.timer /\ Len(store.flights) < MaxSaves
  /\ store' = [store EXCEPT
                 !.timer = FALSE,
                 !.flights = Append(@, [phase |-> ProjectRequest(store.projectId),
                                        id |-> store.projectId,
                                        version |-> store.version,
                                        scenes |-> withScenes])]

\* api.createProject resolved: setProjectId(response.id); saveToDatabase is
\* rebuilt for the new projectId and the effect sets its timeout again
CreateResolves(k) ==
  /\ k \in 1..Len(store.flights) /\ store.flights[k].phase = "create"
  /\ LET id == store.projects + 1
         f == store.flights[k] IN
     store' = [store EXCEPT
                 !.projects = id, !.projectId = id, !.saved = f.version,
                 !.timer = TRUE,
                 !.flights = IF f.scenes
                             THEN [@ EXCEPT ![k] = [f EXCEPT !.phase = "scenes", !.id = id]]
                             ELSE RemoveAt(@, k)]

\* api.updateProject resolved
UpdateResolves(k) ==
  /\ k \in 1..Len(store.flights) /\ store.flights[k].phase = "update"
  /\ LET f == store.flights[k] IN
     store' = [store EXCEPT
                 !.saved = f.version,
                 !.flights = IF f.scenes
                             THEN [@ EXCEPT ![k] = [f EXCEPT !.phase = "scenes"]]
                             ELSE RemoveAt(@, k)]

\* api.saveScenes settled, or a request threw into the catch of saveToDatabase
SaveReturns(k) ==
  /\ k \in 1..Len(store.flights)
  /\ store' = [store EXCEPT !.flights = RemoveAt(@, k)]

EditMade == DocumentChanges /\ UNCHANGED <<job, subTasks, pollVars, storyVars>>
SaveTimerFires ==
  \E withScenes \in BOOLEAN :
     StartSave(withScenes) /\ UNCHANGED <<job, subTasks, pollVars, storyVars>>
ProjectCreated ==
  \E k \in 1..MaxSaves : CreateResolves(k) /\ UNCHANGED <<job, subTasks, pollVars, storyVars>>
ProjectUpdated ==
  \E k \in 1..MaxSaves : UpdateResolves(k) /\ UNCHANGED <<job, subTasks, pollVars, storyVars>>
SaveSettles ==
  \E k \in 1..MaxSaves : SaveReturns(k) /\ UNCHANGED <<job, subTasks, pollVars, storyVars>>

\* a hydrated provider with a style selected, after reset()
InitSave == InitPoller /\ job = NoResponse /\ subTasks = NoSubTasks /\ NoStory
            /\ store = [NoStore EXCEPT !.timer = TRUE]
NextSave == EditMade \/ SaveTimerFires \/ ProjectCreated \/ ProjectUpdated \/ SaveSettles
SpecSave == InitSave /\ [][NextSave]_vars

(***************************************************************************)
(* Saves to the project store                                              *)
(***************************************************************************)
\* C34: at most one call of saveToDatabase is in flight at any time.
C34_OneFlushInFlight == Len(store.flights) <= 1

\* C35: within a session at most one project is created, and once a create
\* request has been issued no further create request is in flight or issued.
C35_ProjectCreatedOnce ==
  /\ store.projects <= 1
  /\ Cardinality({k \in 1..Len(store.flights) : store.flights[k].phase = "create"})
       + store.projects <= 1

(***************************************************************************)
(* SpecLoad: a persisted project is loaded into StoryProvider between      *)
(* visits of SceneGeneration                                               *)
(***************************************************************************)
\* the project id of a project persisted by an earlier session
LoadedProject == MaxSaves + 1

\* the saved scenes in the order of their scene numbers
SortedScenes(project) ==
  [i \in 1..Len(project.scenes) |-> [project.scenes[i] EXCEPT !.scene_number = i]]

\* a saved scene, narrated or not
SavedLine(narrated) ==
  [SceneLine(0) EXCEPT !.narration_url = IF narrated THEN SavedUrl ELSE 0]

\* the projects api.getProject can return: the inputs, and either no scenes or
\* one saved scene per scene of the scene count, with or without narrations,
\* images and videos of the images; a final video only over a video per scene
Projects ==
  {project \in
     UNION {{[count |-> c, description |-> d,
              scenes |-> [i \in 1..n |-> SavedLine(narrated)],
              images |-> im, videos |-> vi, final |-> f] :
                d \in Descriptions, narrated \in BOOLEAN,
                im \in [1..n -> {0, SavedUrl}],
                vi \in [1..n -> {0, SavedUrl}], f \in {0, SavedUrl}} :
            c \in 1..MaxScenes, n \in 0..MaxScenes} :
     /\ Len(project.scenes) \in {0, project.count}
     /\ project.videos \in {[i \in 1..Len(project.scenes) |-> 0], project.images}
     /\ Len(project.scenes) = 0 => project.final = 0
     /\ project.final # 0 =>
           \A i \in 1..Len(project.scenes) : project.videos[i] # 0}

\* variant: the load leaves the watcher's previous value as it was
StaleRef(old, loaded) == old

\* prevSceneCountRef.current = project.scene_count || 6
SyncedRef(old, loaded) == loaded

\* the scene-count watcher of StoryProvider, run on the render after the load:
\* it returns while isLoadingProjectRef is set and otherwise clears the generated
\* content when its previous value is set and differs from the scene count
WatcherClears(loading, prev, current) == ~loading /\ prev # 0 /\ prev # current

\* StoryProvider.loadFromProject of the project page, followed by the render it
\* schedules; loading: whether the watchers run before the microtask that
\* resets isLoadingProjectRef
LoadFromProject(project, loading) ==
  /\ ~mounted
  /\ sceneCount' = project.count
  /\ characterDescription' = project.description
  /\ LET cleared == WatcherClears(loading, SyncedRef(sceneCount, project.count),
                                  project.count) IN
     /\ storyScenes' = IF cleared THEN <<>> ELSE SortedScenes(project)
     /\ sceneImages' = IF cleared THEN <<>> ELSE project.images
     /\ videos' = IF cleared THEN <<>> ELSE project.videos
     /\ imagePrompts' = (~cleared /\ Len(project.scenes) > 0)
     /\ videoPrompts' = IF cleared THEN 0 ELSE Len(project.scenes)
     /\ visualBlueprint' = 0
     /\ finalVideoUrl' = IF cleared THEN 0 ELSE project.final
     /\ storySignature' = IF cleared THEN NoSignature
                          ELSE Signature(project.count, project.description)
  /\ store' = [store EXCEPT !.projectId = LoadedProject, !.timer = TRUE]
  /\ last' = [Recon("load", {}) EXCEPT !.request = <<project>>]
  /\ UNCHANGED <<compVars, opVars, batchVars>>

ProjectLoads ==
  \E project \in Projects, loading \in BOOLEAN :
     LoadFromProject(project, loading) /\ UNCHANGED <<job, subTasks, pollVars>>

NextLoad ==
  \/ ProjectLoads \/ PageMounts \/ BackClicked \/ SceneCountChanges \/ DescriptionChanges
  \/ ScriptResolves \/ ScriptRejects
  \/ ImagePromptsResolve \/ ImagePromptsReject \/ SideCharactersSettled
  \/ NarrationTimerFires \/ NarrationBatchRejects
  \/ ImageTimerFires \/ ImageBatchResolves \/ ImageBatchRejects
SpecLoad == InitStory /\ [][NextLoad]_vars

\* C36: a load leaves the story document holding the scenes, images, videos and
\* final video of the project with the signature of the loaded inputs recorded,
\* and the mount of SceneGeneration that follows the load changes none of them.
C36_LoadNeverInvalidates ==
  /\ [][last'.kind = "load" /\ last'.request # last.request =>
          LET project == last'.request[1] IN
             /\ storyScenes' = SortedScenes(project)
             /\ sceneImages' = project.images
             /\ videos' = project.videos
             /\ finalVideoUrl' = project.final
             /\ storySignature' = Signature(project.count, project.description)
             /\ storySignature' = CurrentSignature']_vars
  /\ [][last.kind = "load" /\ ~mounted /\ mounted' =>
          /\ storyScenes' = storyScenes /\ sceneImages' = sceneImages
          /\ videos' = videos /\ finalVideoUrl' = finalVideoUrl
          /\ storySignature' = storySignature]_vars
C36_Witness ==
  /\ mounted /\ last.kind = "resume"
  /\ sceneCount # MaxScenes /\ Len(storyScenes) = sceneCount
  /\ finalVideoUrl # 0 /\ storySignature = CurrentSignature

(***************************************************************************)
(* The final video and the scene media it was rendered from                *)
(***************************************************************************)
\* C37: a step that replaces or clears the video or the narration of a scene of
\* the story document leaves the stored final video URL empty.
C37_FinalVideoClearedWithSceneMedia ==
  [][(\/ \E i \in 1..Max(Len(videos), Len(videos')) : At(videos', i) # At(videos, i)
      \/ \E i \in 1..Max(Len(storyScenes), Len(storyScenes')) :
            LineAt(storyScenes', i).narration_url # LineAt(storyScenes, i).narration_url)
       => finalVideoUrl' = 0]_vars

(***************************************************************************)
(* SpecBatchVideo: generateAllVideos over the scenes of a resumed story    *)
(* that still lack a video, next to the per-scene video requests           *)
(***************************************************************************)
NextBatchVideo ==
  \/ ClickAnimate \/ ClickRetryAnimation \/ VideoArrives \/ VideoFails
  \/ ClickGenerateAllVideos \/ VideoPartial \/ VideoBatchResolves \/ VideoBatchRejects
SpecBatchVideo == InitScene /\ [][NextBatchVideo]_vars

\* C38: a partial or final result of a video batch puts its k-th video at the
\* scene that was the k-th target of the batch and leaves the video of every
\* scene that was not a target as it was.
C38_BatchVideosLandOnTargets ==
  [][last'.kind \in {"videos", "videosFinal"} =>
        LET targets == vidBatch.targets IN
        /\ \A i \in 1..Max(Len(videos), Len(videos')) :
              FindIndex(targets, i) = 0 => At(videos', i) = At(videos, i)
        /\ last'.kind = "videosFinal" =>
              \E result \in Results(Len(targets)) :
                 \A k \in 1..Len(targets) : At(videos', targets[k]) = result[k]
        /\ last'.kind = "videos" =>
              \/ videos' = videos
              \/ \E payload \in Payloads(Len(targets)) :
                    /\ Populated(payload, targets) = last'.populated
                    /\ \A k \in 1..Len(payload) :
                          payload[k] # 0 => At(videos', targets[k]) = payload[k]]_vars

(***************************************************************************)
(* The image branch after a failed side-character request                  *)
(***************************************************************************)
\* C39: when the side-character request fails, the image-prompt request is
\* still awaited if it is pending; once the image prompts are there the timer of
\* generateAllImages is set, and its firing in the component that set it submits
\* the scene-image batch.
C39_SideCharacterFailureDoesNotAbort ==
  /\ [][script.side = "busy" /\ script'.side = "failed" =>
          /\ script.prompts = "busy" =>
                script'.st = "imagePrompts" /\ script'.prompts = "busy"
          /\ script.prompts = "done" => script'.timer]_vars
  /\ [][script.side = "failed" /\ script.prompts = "busy" /\ script'.prompts = "done" =>
          script'.timer /\ imagePrompts']_vars
  /\ [][script.side = "failed" /\ script.timer /\ ~script'.timer
        /\ script.live /\ mounted /\ ~imagesGeneratedRef =>
          imgBatch'.st = "busy" /\ imgBatch'.live]_vars
  /\ [](script.side = "failed" /\ script.timer => ENABLED ImageTimerFires)
C39_Witness ==
  /\ script.side = "failed" /\ script.prompts = "done"
  /\ imgBatch.st = "busy" /\ imgBatch.live /\ mounted

(***************************************************************************)
(* SpecBlueprint: the generation pipeline with image-prompt responses that *)
(* carry a visual blueprint                                                *)
(***************************************************************************)
\* the visual_blueprint of an image-prompt response: none (0), the record that
\* came with the script (1), or another record (2)
ResponseBlueprints == 0..2

ImagePromptsResolveWithBlueprint ==
  \E blueprint \in ResponseBlueprints :
     ImagePromptsArrive(blueprint) /\ UNCHANGED <<pollVars, jobVars>>

NextBlueprint ==
  \/ PageMounts \/ BackClicked
  \/ ScriptResolves \/ ScriptRejects
  \/ ImagePromptsResolveWithBlueprint \/ ImagePromptsReject \/ SideCharactersSettled
  \/ NarrationTimerFires \/ NarrationBatchRejects
  \/ VideoPromptsResolve \/ VideoPromptsReject
  \/ ImageTimerFires \/ ImageBatchResolves \/ ImageBatchRejects
SpecBlueprint == InitStory /\ [][NextBlueprint]_vars

====
